---- MODULE Spec2Model ----
(***************************************************************************)
(* Route assignment simulator of the fleet optimiser                       *)
(* (src/src/algorithms/assignment.py with its distance oracle in           *)
(* src/src/algorithms/relation_helper.py, src/src/data_loader.py and       *)
(* src/src/pathfinding.py).                                                *)
(*                                                                         *)
(* Units.  A datetime is an integer number of seconds.  A distance (the    *)
(* float distance_km of a route, the float dist of a relation) is an       *)
(* integer number of tenths of a kilometre, so that int(x) is a real       *)
(* truncation.  The float `time' of a relation, which the code hands to    *)
(* timedelta(minutes=...), is kept in sixtieths of its value: a stored     *)
(* relation of t minutes has time = 60 * t, and timedelta(minutes=time)    *)
(* lasts `time' seconds.  Money is in grosze (1/100 PLN).                  *)
(***************************************************************************)
EXTENDS Integers, Sequences, FiniteSets, TLC

\* Python's None where an integer is expected (ids, locations and limits are positive)
None == 0 - 1

\* Python's None where a relation or a service window is expected
NoRelation == [none |-> TRUE]
NoService == [none |-> TRUE]

Minute == 60
Hour == 60 * Minute
Day == 24 * Hour

\* tenths of a kilometre in one kilometre (the fixed point of a float distance)
KmScale == 10

\* int(x) of a float distance x >= 0
IntKm(x) == x \div KmScale

Min2(a, b) == IF a <= b THEN a ELSE b

(***************************************************************************)
(* Constants of the program.                                               *)
(***************************************************************************)
INITIAL_AVAILABILITY_HOURS == 24
LeaseYearDays == 365
max_hops == 3
LifetimeLimitThreshold == 200000
DefaultAnnualLimit == 150000

(***************************************************************************)
(* The configuration object main.load_config reads from                   *)
(* algorithm_config.json: inputs of a run.  The swap policy, the service   *)
(* duration and the costs are the values of models.AssignmentConfig and    *)
(* main.load_config (money in grosze); the tolerance is a small one, so    *)
(* that a vehicle becomes due for a service within a run of MaxRoutes      *)
(* routes.                                                                 *)
(***************************************************************************)
service_tolerance_km == 10
service_duration_hours == 48
service_cost_pln == 200000
max_swaps_per_period == 1
swap_period_days == 90
relocation_base_cost_pln == 100000
relocation_per_km_pln == 100
relocation_per_hour_pln == 15000
overage_per_km_pln == 92

(***************************************************************************)
(* Locations and the relation table (locations_relations.csv): 1 - 2 and   *)
(* 2 - 3 are stored, 1 - 3 is reachable over 2 only, 4 is isolated, and 5  *)
(* is a second id of the place of 1: the relation 1 - 5 is stored with     *)
(* distance 0 and time 0.                                                  *)
(***************************************************************************)
Locations == {1, 2, 3, 4, 5}

relation_lookup ==
    (<<1, 2>> :> [id |-> 1, dist |-> 505, time |-> 60 * 60]) @@
    (<<2, 3>> :> [id |-> 2, dist |-> 300, time |-> 60 * 120]) @@
    (<<1, 5>> :> [id |-> 3, dist |-> 0, time |-> 0])

(***************************************************************************)
(* pathfinding.find_shortest_path: Dijkstra on total time over the         *)
(* undirected relation graph, with a hop limit.  A heap entry is           *)
(* (total_time, total_dist, current, path, hops), compared as a tuple.     *)
(***************************************************************************)
RECURSIVE SeqLess(_, _)
SeqLess(s, t) ==
    IF s = << >> THEN t # << >>
    ELSE IF t = << >> THEN FALSE
    ELSE IF Head(s) # Head(t) THEN Head(s) < Head(t)
    ELSE SeqLess(Tail(s), Tail(t))

EntryLess(a, b) ==
    IF a.total_time # b.total_time THEN a.total_time < b.total_time
    ELSE IF a.total_dist # b.total_dist THEN a.total_dist < b.total_dist
    ELSE IF a.current # b.current THEN a.current < b.current
    ELSE IF a.path # b.path THEN SeqLess(a.path, b.path)
    ELSE a.hops < b.hops

heappop(pq) == CHOOSE m \in pq : \A o \in pq \ {m} : EntryLess(m, o)

\* adjacency[l]: the (neighbor, edge_dist, edge_time) of every stored relation at l
adjacency(lookup, l) ==
    {[neighbor |-> k[2], edge_dist |-> lookup[k].dist, edge_time |-> lookup[k].time] :
        k \in {k \in DOMAIN lookup : k[1] = l}}
    \cup
    {[neighbor |-> k[1], edge_dist |-> lookup[k].dist, edge_time |-> lookup[k].time] :
        k \in {k \in DOMAIN lookup : k[2] = l}}

NoPath == [exists |-> FALSE, distance_km |-> 0, time_hours |-> 0, path |-> << >>]

RECURSIVE Dijkstra(_, _, _, _)
Dijkstra(pq, visited, to_loc, lookup) ==
    IF pq = {} THEN NoPath
    ELSE
      LET m == heappop(pq)
          rest == pq \ {m}
          seen == visited \cup {m.current}
      IN  IF m.current \in visited THEN Dijkstra(rest, visited, to_loc, lookup)
          ELSE IF m.current = to_loc
            THEN [exists |-> TRUE, distance_km |-> m.total_dist,
                  time_hours |-> m.total_time, path |-> m.path]
          ELSE IF m.hops >= max_hops THEN Dijkstra(rest, seen, to_loc, lookup)
          ELSE Dijkstra(
                 rest \cup
                 {[total_time |-> m.total_time + e.edge_time,
                   total_dist |-> m.total_dist + e.edge_dist,
                   current |-> e.neighbor,
                   path |-> Append(m.path, e.neighbor),
                   hops |-> m.hops + 1] :
                     e \in {e \in adjacency(lookup, m.current) : e.neighbor \notin seen}},
                 seen, to_loc, lookup)

\* time_hours is the path's time divided by 60 (minutes to hours)
find_shortest_path(from_loc, to_loc, lookup) ==
    IF from_loc = to_loc
      THEN [exists |-> TRUE, distance_km |-> 0, time_hours |-> 0, path |-> <<from_loc>>]
    ELSE IF <<from_loc, to_loc>> \in DOMAIN lookup
      THEN [exists |-> TRUE, distance_km |-> lookup[<<from_loc, to_loc>>].dist,
            time_hours |-> lookup[<<from_loc, to_loc>>].time \div 60,
            path |-> <<from_loc, to_loc>>]
    ELSE IF <<to_loc, from_loc>> \in DOMAIN lookup
      THEN [exists |-> TRUE, distance_km |-> lookup[<<to_loc, from_loc>>].dist,
            time_hours |-> lookup[<<to_loc, from_loc>>].time \div 60,
            path |-> <<from_loc, to_loc>>]
    ELSE
      LET r == Dijkstra({[total_time |-> 0, total_dist |-> 0, current |-> from_loc,
                          path |-> <<from_loc>>, hops |-> 0]}, {}, to_loc, lookup)
      IN  [r EXCEPT !.time_hours = r.time_hours \div 60]

(***************************************************************************)
(* data_loader.get_relation: the stored relation, its reverse, or a        *)
(* synthetic relation over a multi-hop path; None without a path.          *)
(***************************************************************************)
\* the synthetic relation of a multi-hop path: time = path_result.time_hours
synthetic_relation(path_result) ==
    IF path_result.exists
      THEN [id |-> 0 - 1, dist |-> path_result.distance_km,
            time |-> path_result.time_hours]
      ELSE NoRelation

get_relation(from_loc, to_loc, lookup, use_pathfinding) ==
    IF from_loc = to_loc THEN [id |-> 0, dist |-> 0, time |-> 0]
    ELSE IF <<from_loc, to_loc>> \in DOMAIN lookup THEN lookup[<<from_loc, to_loc>>]
    ELSE IF <<to_loc, from_loc>> \in DOMAIN lookup THEN lookup[<<to_loc, from_loc>>]
    ELSE IF use_pathfinding
      THEN synthetic_relation(find_shortest_path(from_loc, to_loc, lookup))
    ELSE NoRelation

(***************************************************************************)
(* pathfinding._path_cache: one dictionary per process, keyed by           *)
(* (from_loc, to_loc) alone.  get_path_with_cache fills it on a miss and   *)
(* answers from it on a hit, whatever table the caller passes.             *)
(***************************************************************************)
clear_path_cache == << >>

\* the dictionary after get_relation was called for every pair of keys:
\* get_relation reaches get_path_with_cache where no relation is stored in
\* either direction, and an entry that is there is kept
path_cache_after(cache, keys, lookup, use_pathfinding) ==
    cache @@ [k \in {k \in keys : /\ k[1] # k[2]
                                  /\ <<k[1], k[2]>> \notin DOMAIN lookup
                                  /\ <<k[2], k[1]>> \notin DOMAIN lookup
                                  /\ use_pathfinding}
                 |-> find_shortest_path(k[1], k[2], lookup)]

(***************************************************************************)
(* relation_helper.get_cached_relation: None for the same location, else   *)
(* the cached result when there is one, else get_relation.                 *)
(***************************************************************************)
get_cached_relation(from_location, to_location, lookup, cfg, cache) ==
    IF from_location = to_location THEN NoRelation
    ELSE IF cfg.use_relation_cache /\ <<from_location, to_location>> \in DOMAIN cache
      THEN cache[<<from_location, to_location>>]
    ELSE get_relation(from_location, to_location, lookup, cfg.use_pathfinding)

\* cost = base + dist * per_km + (time / 60) * per_hour, in grosze
calculate_relocation_cost(relation) ==
    IF relation = NoRelation THEN 0
    ELSE relocation_base_cost_pln
         + (relation.dist * relocation_per_km_pln) \div KmScale
         + (relation.time * relocation_per_hour_pln) \div (60 * 60)

(***************************************************************************)
(* Vehicle state and its helpers (algorithms/assignment.py).               *)
(***************************************************************************)
has_lifetime_limit(vehicle) == vehicle.leasing_limit_km > LifetimeLimitThreshold

annual_limit_km(vehicle) ==
    IF has_lifetime_limit(vehicle) THEN DefaultAnnualLimit ELSE vehicle.leasing_limit_km

total_contract_limit_km(vehicle) ==
    IF has_lifetime_limit(vehicle) THEN vehicle.leasing_limit_km ELSE None

InitialState(vehicle, available_from) ==
    [vehicle_id |-> vehicle.id,
     current_location_id |-> vehicle.current_location_id,
     current_odometer_km |-> vehicle.current_odometer_km,
     km_since_last_service |-> 0,
     km_driven_this_lease_year |-> 0,
     total_lifetime_km |-> vehicle.current_odometer_km,
     available_from |-> available_from,
     last_route_id |-> None,
     relocations |-> << >>,
     annual_limit_km |-> annual_limit_km(vehicle),
     service_interval_km |-> vehicle.service_interval_km,
     total_contract_limit_km |-> total_contract_limit_km(vehicle),
     lease_start_date |-> vehicle.leasing_start_date,
     lease_end_date |-> vehicle.leasing_end_date,
     lease_cycle_number |-> 1,
     total_service_count |-> 0,
     total_service_cost |-> 0,
     routes_assigned |-> 0]

initialize_states(vs, start_date) ==
    [id \in {vs[i].id : i \in DOMAIN vs} |->
        InitialState(CHOOSE v \in {vs[i] : i \in DOMAIN vs} : v.id = id,
                     start_date - INITIAL_AVAILABILITY_HOURS * Hour)]

validate_route(route) ==
    /\ route.start_location_id # None
    /\ route.end_location_id # None
    /\ route.distance_km > 0
    /\ route.end_datetime > route.start_datetime

update_relocation_window(s, current_date) ==
    [s EXCEPT !.relocations =
        SelectSeq(s.relocations,
                  LAMBDA r : r[1] >= current_date - swap_period_days * Day)]

\* variant: a single reset (`if' in place of `while')
check_and_reset_once(s, current_date) ==
    IF current_date >= s.lease_end_date
      THEN [s EXCEPT !.km_driven_this_lease_year = 0,
                     !.lease_cycle_number = @ + 1,
                     !.lease_start_date = s.lease_end_date,
                     !.lease_end_date = @ + LeaseYearDays * Day]
      ELSE s

\* variant: the reset waits until the date is past the lease end (`>' in place of `>=')
RECURSIVE check_and_reset_after_lease_end(_, _)
check_and_reset_after_lease_end(s, current_date) ==
    IF current_date > s.lease_end_date
      THEN check_and_reset_after_lease_end(
             [s EXCEPT !.km_driven_this_lease_year = 0,
                       !.lease_cycle_number = @ + 1,
                       !.lease_start_date = s.lease_end_date,
                       !.lease_end_date = @ + LeaseYearDays * Day],
             current_date)
      ELSE s

RECURSIVE check_and_reset_annual_km(_, _)
check_and_reset_annual_km(s, current_date) ==
    IF current_date >= s.lease_end_date
      THEN check_and_reset_annual_km(
             [s EXCEPT !.km_driven_this_lease_year = 0,
                       !.lease_cycle_number = @ + 1,
                       !.lease_start_date = s.lease_end_date,
                       !.lease_end_date = @ + LeaseYearDays * Day],
             current_date)
      ELSE s

needs_service(s) ==
    s.km_since_last_service > s.service_interval_km + service_tolerance_km

\* (service_start, service_end), or NoService for (None, None)
calculate_service_time(s) ==
    IF ~needs_service(s) THEN NoService
    ELSE [service_start |-> s.available_from,
          service_end |-> s.available_from + service_duration_hours * Hour]

schedule_service(s) ==
    IF calculate_service_time(s) = NoService THEN s
    ELSE [s EXCEPT !.km_since_last_service = 0,
                   !.total_service_count = @ + 1,
                   !.total_service_cost = @ + service_cost_pln,
                   !.available_from = calculate_service_time(s).service_end]

(***************************************************************************)
(* int(route_km * (duration_in_current_year / total_duration)) in IEEE-754 *)
(* double arithmetic.  The quotient is rounded before the product is       *)
(* taken, so when route_km * d / total is a whole number n the product can *)
(* come out just below n and truncate to n - 1.  DoubleShortfall lists the *)
(* (route_km, d, total) of the routes below for which CPython does so      *)
(* (for instance 90 * (25200.0 / 36000.0) = 62.99999999999999); for every  *)
(* other split of those routes the result is the exact floor.              *)
(***************************************************************************)
DoubleShortfall == {<<90, 7 * Hour, 10 * Hour>>}

int_km_times_ratio(route_km, d, total) ==
    IF <<route_km, d, total>> \in DoubleShortfall
      THEN (route_km * d) \div total - 1
      ELSE (route_km * d) \div total

\* (km_in_current_year, km_in_next_year)
pro_rate_km_across_lease_years(s, route_start, route_end, route_km) ==
    IF route_end <= s.lease_end_date THEN <<route_km, 0>>
    ELSE IF route_start >= s.lease_end_date THEN <<0, route_km>>
    ELSE IF route_end - route_start <= 0 THEN <<route_km, 0>>
    ELSE <<int_km_times_ratio(route_km, s.lease_end_date - route_start,
                              route_end - route_start),
           route_km - int_km_times_ratio(route_km, s.lease_end_date - route_start,
                                         route_end - route_start)>>

\* variant: a service that is due does not delay the vehicle
availability_without_service(s) == s.available_from

\* the availability check_feasibility works with: after the service, if one is due
availability_after_service(s) ==
    IF calculate_service_time(s) # NoService
      THEN calculate_service_time(s).service_end
      ELSE s.available_from

\* variant: the vehicle's availability is not compared with the route start
check_feasibility_without_availability(s, route, lookup, cfg, cache) ==
    LET availability == availability_after_service(s)
        relation == get_cached_relation(s.current_location_id, route.start_location_id,
                                        lookup, cfg, cache)
        future_km == s.total_lifetime_km + IntKm(route.distance_km)
                     + (IF s.current_location_id # route.start_location_id
                           /\ relation # NoRelation
                          THEN IntKm(relation.dist) ELSE 0)
    IN  IF ~validate_route(route) THEN "Invalid route data"
        ELSE IF s.current_location_id # route.start_location_id /\ relation = NoRelation
          THEN "No path to start location"
        ELSE IF s.current_location_id # route.start_location_id
                /\ availability + relation.time > route.start_datetime
          THEN "Cannot reach in time (after service)"
        ELSE IF s.current_location_id # route.start_location_id
                /\ Len(s.relocations) >= max_swaps_per_period
          THEN "Swap limit exceeded"
        ELSE IF s.total_contract_limit_km # None /\ s.total_contract_limit_km # 0
                /\ future_km > s.total_contract_limit_km
          THEN "Would exceed contract lifetime limit"
        ELSE "OK"

\* variant: the relocation distance is left out of future_km
check_feasibility_without_relocation_km(s, route, lookup, cfg, cache) ==
    LET availability == availability_after_service(s)
        relation == get_cached_relation(s.current_location_id, route.start_location_id,
                                        lookup, cfg, cache)
        future_km == s.total_lifetime_km + IntKm(route.distance_km)
    IN  IF ~validate_route(route) THEN "Invalid route data"
        ELSE IF availability > route.start_datetime
          THEN "Not available yet (including potential service time)"
        ELSE IF s.current_location_id # route.start_location_id /\ relation = NoRelation
          THEN "No path to start location"
        ELSE IF s.current_location_id # route.start_location_id
                /\ availability + relation.time > route.start_datetime
          THEN "Cannot reach in time (after service)"
        ELSE IF s.current_location_id # route.start_location_id
                /\ Len(s.relocations) >= max_swaps_per_period
          THEN "Swap limit exceeded"
        ELSE IF s.total_contract_limit_km # None /\ s.total_contract_limit_km # 0
                /\ future_km > s.total_contract_limit_km
          THEN "Would exceed contract lifetime limit"
        ELSE "OK"

\* variant: no swap policy check
check_feasibility_without_swap_policy(s, route, lookup, cfg, cache) ==
    LET availability == availability_after_service(s)
        relation == get_cached_relation(s.current_location_id, route.start_location_id,
                                        lookup, cfg, cache)
        future_km == s.total_lifetime_km + IntKm(route.distance_km)
                     + (IF s.current_location_id # route.start_location_id
                           /\ relation # NoRelation
                          THEN IntKm(relation.dist) ELSE 0)
    IN  IF ~validate_route(route) THEN "Invalid route data"
        ELSE IF availability > route.start_datetime
          THEN "Not available yet (including potential service time)"
        ELSE IF s.current_location_id # route.start_location_id /\ relation = NoRelation
          THEN "No path to start location"
        ELSE IF s.current_location_id # route.start_location_id
                /\ availability + relation.time > route.start_datetime
          THEN "Cannot reach in time (after service)"
        ELSE IF s.total_contract_limit_km # None /\ s.total_contract_limit_km # 0
                /\ future_km > s.total_contract_limit_km
          THEN "Would exceed contract lifetime limit"
        ELSE "OK"

\* the reason check_feasibility returns; "OK" when the vehicle can take the route
check_feasibility(s, route, lookup, cfg, cache) ==
    LET availability == availability_after_service(s)
        relation == get_cached_relation(s.current_location_id, route.start_location_id,
                                        lookup, cfg, cache)
        future_km == s.total_lifetime_km + IntKm(route.distance_km)
                     + (IF s.current_location_id # route.start_location_id
                           /\ relation # NoRelation
                          THEN IntKm(relation.dist) ELSE 0)
    IN  IF ~validate_route(route) THEN "Invalid route data"
        ELSE IF availability > route.start_datetime
          THEN "Not available yet (including potential service time)"
        ELSE IF s.current_location_id # route.start_location_id /\ relation = NoRelation
          THEN "No path to start location"
        ELSE IF s.current_location_id # route.start_location_id
                /\ availability + relation.time > route.start_datetime
          THEN "Cannot reach in time (after service)"
        ELSE IF s.current_location_id # route.start_location_id
                /\ Len(s.relocations) >= max_swaps_per_period
          THEN "Swap limit exceeded"
        ELSE IF s.total_contract_limit_km # None /\ s.total_contract_limit_km # 0
                /\ future_km > s.total_contract_limit_km
          THEN "Would exceed contract lifetime limit"
        ELSE "OK"

\* the cache keys one call of check_feasibility looks up (and stores)
feasibility_lookups(s, route) ==
    IF /\ validate_route(route)
       /\ availability_after_service(s) <= route.start_datetime
       /\ s.current_location_id # route.start_location_id
      THEN {<<s.current_location_id, route.start_location_id>>}
      ELSE {}

(***************************************************************************)
(* update_state: lease-year reset, relocation window, service, relocation, *)
(* location, route kilometres, availability.                               *)
(***************************************************************************)
\* variant: the relocation is recorded but its kilometres are not put on the odometer
record_relocation_off_odometer(s, route, relation) ==
    IF s.current_location_id # route.start_location_id /\ relation # NoRelation
      THEN [s EXCEPT
              !.relocations = Append(@, <<route.start_datetime, s.current_location_id,
                                          route.start_location_id>>),
              !.km_driven_this_lease_year = @ + IntKm(relation.dist),
              !.total_lifetime_km = @ + IntKm(relation.dist),
              !.km_since_last_service = @ + IntKm(relation.dist)]
      ELSE s

record_relocation(s, route, relation) ==
    IF s.current_location_id # route.start_location_id /\ relation # NoRelation
      THEN [s EXCEPT
              !.relocations = Append(@, <<route.start_datetime, s.current_location_id,
                                          route.start_location_id>>),
              !.current_odometer_km = @ + IntKm(relation.dist),
              !.km_driven_this_lease_year = @ + IntKm(relation.dist),
              !.total_lifetime_km = @ + IntKm(relation.dist),
              !.km_since_last_service = @ + IntKm(relation.dist)]
      ELSE s

\* variant: the odometer is set to the route distance (`=' in place of `+=')
add_route_km_odometer_assigned(s, route) ==
    LET distance_km == IntKm(route.distance_km)
        split == pro_rate_km_across_lease_years(s, route.start_datetime,
                                                route.end_datetime, distance_km)
        driven == [s EXCEPT !.current_odometer_km = distance_km,
                            !.total_lifetime_km = @ + distance_km,
                            !.km_since_last_service = @ + distance_km,
                            !.km_driven_this_lease_year = @ + split[1]]
    IN  IF split[2] > 0
          THEN [check_and_reset_annual_km(driven, route.end_datetime) EXCEPT
                  !.km_driven_this_lease_year = @ + split[2]]
          ELSE driven

\* variant: the kilometres of the next lease year are dropped after the reset
add_route_km_next_year_dropped(s, route) ==
    LET distance_km == IntKm(route.distance_km)
        split == pro_rate_km_across_lease_years(s, route.start_datetime,
                                                route.end_datetime, distance_km)
        driven == [s EXCEPT !.current_odometer_km = @ + distance_km,
                            !.total_lifetime_km = @ + distance_km,
                            !.km_since_last_service = @ + distance_km,
                            !.km_driven_this_lease_year = @ + split[1]]
    IN  IF split[2] > 0
          THEN check_and_reset_annual_km(driven, route.end_datetime)
          ELSE driven

\* variant: the route kilometres go on the odometer but not on the lifetime counter
add_route_km_off_lifetime(s, route) ==
    LET distance_km == IntKm(route.distance_km)
        split == pro_rate_km_across_lease_years(s, route.start_datetime,
                                                route.end_datetime, distance_km)
        driven == [s EXCEPT !.current_odometer_km = @ + distance_km,
                            !.km_since_last_service = @ + distance_km,
                            !.km_driven_this_lease_year = @ + split[1]]
    IN  IF split[2] > 0
          THEN [check_and_reset_annual_km(driven, route.end_datetime) EXCEPT
                  !.km_driven_this_lease_year = @ + split[2]]
          ELSE driven

add_route_km(s, route) ==
    LET distance_km == IntKm(route.distance_km)
        split == pro_rate_km_across_lease_years(s, route.start_datetime,
                                                route.end_datetime, distance_km)
        driven == [s EXCEPT !.current_odometer_km = @ + distance_km,
                            !.total_lifetime_km = @ + distance_km,
                            !.km_since_last_service = @ + distance_km,
                            !.km_driven_this_lease_year = @ + split[1]]
    IN  IF split[2] > 0
          THEN [check_and_reset_annual_km(driven, route.end_datetime) EXCEPT
                  !.km_driven_this_lease_year = @ + split[2]]
          ELSE driven

update_state(s, route, lookup, cfg, cache) ==
    LET reset == check_and_reset_annual_km(s, route.start_datetime)
        pruned == update_relocation_window(reset, route.start_datetime)
        serviced == schedule_service(pruned)
        relation == get_cached_relation(serviced.current_location_id,
                                        route.start_location_id, lookup, cfg, cache)
        relocated == record_relocation(serviced, route, relation)
        moved == [relocated EXCEPT !.current_location_id = route.end_location_id]
        driven == add_route_km(moved, route)
    IN  [driven EXCEPT !.available_from = route.end_datetime,
                       !.last_route_id = route.id,
                       !.routes_assigned = @ + 1]

(***************************************************************************)
(* The one statement of update_state that can raise on loaded data:        *)
(* lease_end_date += timedelta(days=365) raises OverflowError when the sum *)
(* lies past datetime.max.  datetime_max is datetime.max on the model's    *)
(* time axis: the data set lies in the last years of the calendar.  The    *)
(* exception is not caught in update_state nor in either strategy.         *)
(***************************************************************************)
datetime_max == (5 * LeaseYearDays + 10) * Day

\* one pass of the loop body of check_and_reset_annual_km
reset_lease_year(s) ==
    [s EXCEPT !.km_driven_this_lease_year = 0,
              !.lease_cycle_number = @ + 1,
              !.lease_start_date = s.lease_end_date,
              !.lease_end_date = @ + LeaseYearDays * Day]

\* check_and_reset_annual_km raises
RECURSIVE check_and_reset_raises(_, _)
check_and_reset_raises(s, current_date) ==
    /\ current_date >= s.lease_end_date
    /\ \/ s.lease_end_date + LeaseYearDays * Day > datetime_max
       \/ check_and_reset_raises(reset_lease_year(s), current_date)

\* the vehicle state a raising check_and_reset_annual_km leaves behind: the
\* three assignments before the failing one are done
RECURSIVE check_and_reset_interrupted(_, _)
check_and_reset_interrupted(s, current_date) ==
    IF s.lease_end_date + LeaseYearDays * Day > datetime_max
      THEN [s EXCEPT !.km_driven_this_lease_year = 0,
                     !.lease_cycle_number = @ + 1,
                     !.lease_start_date = s.lease_end_date]
      ELSE check_and_reset_interrupted(reset_lease_year(s), current_date)

\* update_state down to the reset at the route's end: the state there, and
\* km_next_year
update_state_to_second_reset(s, route, lookup, cfg, cache) ==
    LET reset == check_and_reset_annual_km(s, route.start_datetime)
        pruned == update_relocation_window(reset, route.start_datetime)
        serviced == schedule_service(pruned)
        relation == get_cached_relation(serviced.current_location_id,
                                        route.start_location_id, lookup, cfg, cache)
        relocated == record_relocation(serviced, route, relation)
        moved == [relocated EXCEPT !.current_location_id = route.end_location_id]
        distance_km == IntKm(route.distance_km)
        split == pro_rate_km_across_lease_years(moved, route.start_datetime,
                                                route.end_datetime, distance_km)
    IN  [state |-> [moved EXCEPT !.current_odometer_km = @ + distance_km,
                                 !.total_lifetime_km = @ + distance_km,
                                 !.km_since_last_service = @ + distance_km,
                                 !.km_driven_this_lease_year = @ + split[1]],
         km_next_year |-> split[2]]

update_state_raises(s, route, lookup, cfg, cache) ==
    LET second == update_state_to_second_reset(s, route, lookup, cfg, cache)
    IN  \/ check_and_reset_raises(s, route.start_datetime)
        \/ /\ second.km_next_year > 0
           /\ check_and_reset_raises(second.state, route.end_datetime)

\* the vehicle state a raising update_state leaves behind
update_state_interrupted(s, route, lookup, cfg, cache) ==
    IF check_and_reset_raises(s, route.start_datetime)
      THEN check_and_reset_interrupted(s, route.start_datetime)
      ELSE check_and_reset_interrupted(
               update_state_to_second_reset(s, route, lookup, cfg, cache).state,
               route.end_datetime)

(***************************************************************************)
(* calculate_assignment_cost.  With workloads w (vehicle id -> routes, the *)
(* defaultdict of the greedy strategy) of total T over A active vehicles,  *)
(* the penalty min(500, 50 + 200 * (w - T/A) / (T/A + 1)) has denominator  *)
(* T + A, so the cost is returned multiplied by cost_scale(w) = T + A      *)
(* (1 when the dict is empty or no workloads are passed).                  *)
(***************************************************************************)
RECURSIVE SumOver(_, _)
SumOver(f, S) ==
    IF S = {} THEN 0
    ELSE LET e == CHOOSE e \in S : TRUE IN f[e] + SumOver(f, S \ {e})

total_assigned(w) == SumOver(w, DOMAIN w)
num_active_vehicles(w) == Cardinality({v \in DOMAIN w : w[v] > 0})

cost_scale(w) ==
    IF total_assigned(w) = 0 THEN 1 ELSE total_assigned(w) + num_active_vehicles(w)

\* the penalty times cost_scale(w); current_workload > avg * 1.2 is 5 w A > 6 T
workload_penalty(vehicle_id, w) ==
    IF total_assigned(w) = 0 \/ w[vehicle_id] = 0 THEN 0
    ELSE IF 5 * w[vehicle_id] * num_active_vehicles(w) > 6 * total_assigned(w)
      THEN Min2(50000 * cost_scale(w),
                5000 * cost_scale(w)
                + 20000 * (w[vehicle_id] * num_active_vehicles(w) - total_assigned(w)))
    ELSE 0

\* relocation + overage + service, in grosze (INFEASIBLE_COST is never returned
\* for a vehicle check_feasibility accepted: its relation exists)
immediate_cost(s, route, lookup, cfg, cache) ==
    LET relation == get_cached_relation(s.current_location_id, route.start_location_id,
                                        lookup, cfg, cache)
        future_km == s.km_driven_this_lease_year + IntKm(route.distance_km)
    IN  (IF s.current_location_id # route.start_location_id
           THEN calculate_relocation_cost(relation) ELSE 0)
        + (IF future_km > s.annual_limit_km
             THEN (future_km - s.annual_limit_km) * overage_per_km_pln ELSE 0)
        + (IF needs_service(s) THEN service_cost_pln ELSE 0)

calculate_assignment_cost(s, route, lookup, cfg, cache, w) ==
    immediate_cost(s, route, lookup, cfg, cache) * cost_scale(w)
    + workload_penalty(s.vehicle_id, w)

\* no workloads: the call of the look-ahead strategy
NoWorkloads == << >>

(***************************************************************************)
(* The per-route scan of both strategies: the vehicles in the order of     *)
(* the input list, the first strictly cheapest feasible one is kept.       *)
(***************************************************************************)
NoBest == [vehicle_id |-> None, cost |-> 0]

\* variant: the first feasible vehicle is kept, whatever a later one costs
RECURSIVE scan_vehicles_first_feasible(_, _, _, _)
scan_vehicles_first_feasible(ids, cand, i, best) ==
    IF i > Len(ids) THEN best
    ELSE IF cand[ids[i]].feasible /\ best.vehicle_id = None
      THEN scan_vehicles_first_feasible(ids, cand, i + 1,
                                        [vehicle_id |-> ids[i], cost |-> cand[ids[i]].cost])
    ELSE scan_vehicles_first_feasible(ids, cand, i + 1, best)

RECURSIVE scan_vehicles(_, _, _, _)
scan_vehicles(ids, cand, i, best) ==
    IF i > Len(ids) THEN best
    ELSE IF cand[ids[i]].feasible
            /\ (best.vehicle_id = None \/ cand[ids[i]].cost < best.cost)
      THEN scan_vehicles(ids, cand, i + 1,
                         [vehicle_id |-> ids[i], cost |-> cand[ids[i]].cost])
    ELSE scan_vehicles(ids, cand, i + 1, best)

\* variant: a route starting exactly at the end of the window is kept
filter_routes_by_lookahead_inclusive(rs, lookahead_days) ==
    IF lookahead_days <= 0 \/ rs = << >> THEN rs
    ELSE SelectSeq(rs, LAMBDA r :
                         r.start_datetime <= rs[1].start_datetime + lookahead_days * Day)

filter_routes_by_lookahead(rs, lookahead_days) ==
    IF lookahead_days <= 0 \/ rs = << >> THEN rs
    ELSE SelectSeq(rs, LAMBDA r :
                         r.start_datetime < rs[1].start_datetime + lookahead_days * Day)

\* sorted(routes, key=(start_datetime, start_location_id)): a stable sort
RouteKeyLeq(a, b) ==
    \/ a.start_datetime < b.start_datetime
    \/ /\ a.start_datetime = b.start_datetime
       /\ a.start_location_id <= b.start_location_id

RECURSIVE InsertSorted(_, _)
InsertSorted(sorted, r) ==
    IF sorted = << >> THEN <<r>>
    ELSE IF RouteKeyLeq(sorted[Len(sorted)], r) THEN Append(sorted, r)
    ELSE Append(InsertSorted(SubSeq(sorted, 1, Len(sorted) - 1), r), sorted[Len(sorted)])

RECURSIVE SortRoutes(_)
SortRoutes(rs) ==
    IF rs = << >> THEN << >>
    ELSE InsertSorted(SortRoutes(SubSeq(rs, 1, Len(rs) - 1)), rs[Len(rs)])

\* sorted(...) raises TypeError: two keys with the same start_datetime are compared
\* by start_location_id, and None (a route without segments) has no order with an int
sorted_raises(rs) ==
    \E i, j \in DOMAIN rs :
        /\ rs[i].start_datetime = rs[j].start_datetime
        /\ rs[i].start_location_id = None
        /\ rs[j].start_location_id # None

(***************************************************************************)
(* The inputs of a run.                                                    *)
(***************************************************************************)
\* routes in a run
MaxRoutes == 3

Year == LeaseYearDays * Day

\* the lease ends a vehicle may be loaded with, relative to the first route slot
LeaseEnds == {5 * Year, 0, 7 * Hour, 0 - 366 * Day, 100 * Day}

\* vehicle 1: a short service interval; an annual limit or a lifetime cap 100 km away
Vehicle1Set ==
    {[id |-> 1, service_interval_km |-> 50, leasing_start_km |-> 150000,
      leasing_limit_km |-> limit, leasing_start_date |-> lease_end - Year,
      leasing_end_date |-> lease_end, current_odometer_km |-> 200000,
      current_location_id |-> loc] :
        limit \in {100000, 200100}, lease_end \in LeaseEnds, loc \in {1, 2, 3}}

\* vehicle 2: a long service interval, an annual limit, the lease ending far ahead
Vehicle2Set ==
    {[id |-> 2, service_interval_km |-> 30000, leasing_start_km |-> 7,
      leasing_limit_km |-> 100000, leasing_start_date |-> 4 * Year,
      leasing_end_date |-> 5 * Year, current_odometer_km |-> 7,
      current_location_id |-> loc] : loc \in {1, 3, 4}}

Route(start, end, from, to, km) ==
    [start_datetime |-> start, end_datetime |-> end, start_location_id |-> from,
     end_location_id |-> to, distance_km |-> km]

\* the routes a run draws from (routes.csv with segments.csv)
RouteCatalogue ==
    {Route(0, 10 * Hour, 1, 2, 900),
     Route(0, 10 * Hour, 3, 2, 457),
     Route(10 * Hour + 30 * Minute, 12 * Hour, 1, 3, 620),
     Route(11 * Hour, 11 * Hour + 30 * Minute, 3, 1, 300),
     Route(61 * Hour, 62 * Hour, 1, 3, 155),
     Route(100 * Day, 466 * Day, 1, 1, 200)}

\* load_routes sorts by start_datetime; ids are given in the order of the file
RouteLists ==
    {[i \in 1..MaxRoutes |-> [id |-> i] @@ f[i]] :
        f \in {f \in [1..MaxRoutes -> RouteCatalogue] :
                 \A i \in 1..(MaxRoutes - 1) :
                     f[i].start_datetime <= f[i + 1].start_datetime}}

Configs ==
    [assignment_strategy : {"greedy", "greedy_with_lookahead"},
     assignment_lookahead_days : {0},
     use_chain_optimization : {FALSE},
     use_pathfinding : {TRUE},
     use_relation_cache : {TRUE}]

VARIABLES
    vehicles,           \* the input vehicle list
    routes,             \* the input route list
    config,             \* the configuration of the run
    vehicle_states,     \* vehicle id -> state
    relation_cache,     \* (from, to) -> relation, the per-run cache
    vehicle_workloads,  \* vehicle id -> routes given (greedy strategy)
    assignments,        \* the assignment records, in order
    unassigned,         \* the ids of the routes no vehicle could take
    route_index,        \* routes decided so far
    pc,                 \* "run" inside the loop, "done" after the return
    path_cache,         \* pathfinding._path_cache, the dictionary of the process
    call,               \* the entry point the process is executing, and where it is
    database,           \* the rows committed, and the rows of the open transaction
    pool,               \* db_adapter._connection_pool: the connections handed out
    response,           \* what the last request handler returned
    relations,          \* the relation table a library function is called with
    demand,             \* the demand dictionary a placement function is called with
    returned            \* what the library function called last returned

\* the state of one optimisation run
run_vars == <<vehicles, routes, config, vehicle_states, relation_cache, vehicle_workloads,
              assignments, unassigned, route_index, pc>>

\* the state of the process around the runs
service_vars == <<path_cache, call, database, pool, response, relations, demand, returned>>

vars == <<run_vars, service_vars>>

\* the process around the run, without the dictionary of the oracle
process_vars == <<call, database, pool, response, relations, demand, returned>>

\* the arguments and the result of a library function called on its own
library_vars == <<relations, demand, returned>>

NoCall == [request |-> "none", entry |-> "none", data_dir |-> "None", use_database |-> FALSE,
           pc |-> "idle", run_id |-> None, saved |-> 0, seq |-> 0]
EmptyDatabase == [algorithm_runs |-> << >>, committed |-> {}, pending |-> {}]
NoResponse == [status_code |-> None, status |-> "none", keys |-> {}]
NoReturn == [function |-> "none"]

\* a fresh process that runs the optimiser once: nothing was looked up, no
\* request is being handled, no connection is handed out
ServiceIdle ==
    /\ path_cache = clear_path_cache
    /\ call = NoCall
    /\ database = EmptyDatabase
    /\ pool = 0
    /\ response = NoResponse
    /\ relations = relation_lookup
    /\ demand = << >>
    /\ returned = NoReturn

vehicle_ids == [i \in DOMAIN vehicles |-> vehicles[i].id]

routes_to_assign ==
    IF config.assignment_strategy = "greedy_with_lookahead"
      THEN SortRoutes(filter_routes_by_lookahead(routes, config.assignment_lookahead_days))
      ELSE filter_routes_by_lookahead(routes, config.assignment_lookahead_days)

current_route == routes_to_assign[route_index + 1]

Init ==
    /\ vehicles \in {<<v1, v2>> : v1 \in Vehicle1Set, v2 \in Vehicle2Set}
    /\ routes \in RouteLists
    /\ config \in Configs
    /\ vehicle_states = initialize_states(vehicles, routes[1].start_datetime)
    /\ relation_cache = << >>
    /\ vehicle_workloads = [id \in {vehicles[i].id : i \in DOMAIN vehicles} |-> 0]
    /\ assignments = << >>
    /\ unassigned = << >>
    /\ route_index = 0
    /\ pc = "run"
    /\ ServiceIdle

\* what the scan of one route computes for every vehicle
greedy_candidates(route) ==
    [id \in DOMAIN vehicle_states |->
        [feasible |-> check_feasibility(vehicle_states[id], route, relation_lookup,
                                        config, relation_cache) = "OK",
         cost |-> calculate_assignment_cost(vehicle_states[id], route, relation_lookup,
                                            config, relation_cache, vehicle_workloads)]]

\* effective_cost = immediate_cost - chain_score * chain_weight * 2.0
lookahead_candidates(route) ==
    [id \in DOMAIN vehicle_states |->
        [feasible |-> check_feasibility(vehicle_states[id], route, relation_lookup,
                                        config, relation_cache) = "OK",
         cost |-> calculate_assignment_cost(vehicle_states[id], route, relation_lookup,
                                            config, relation_cache, NoWorkloads)]]

\* the per-run cache after the lookups of one route's scan
\* the pairs the scan of one route asks the oracle for
scan_lookups(route) ==
    UNION {feasibility_lookups(vehicle_states[id], route) : id \in DOMAIN vehicle_states}

cache_after_scan(route) ==
    IF config.use_relation_cache
      THEN [k \in UNION {feasibility_lookups(vehicle_states[id], route) :
                           id \in DOMAIN vehicle_states} |->
               get_relation(k[1], k[2], relation_lookup, config.use_pathfinding)]
           @@ relation_cache
      ELSE relation_cache

assignment_record(route, best, scale) ==
    [route_id |-> route.id,
     vehicle_id |-> best.vehicle_id,
     date |-> route.start_datetime,
     route_start_location |-> route.start_location_id,
     route_end_location |-> route.end_location_id,
     requires_relocation |->
         vehicle_states[best.vehicle_id].current_location_id # route.start_location_id,
     cost |-> best.cost,
     cost_scale |-> scale,
     chain_score |-> 0]

\* the condition under which the lookahead loop calls build_future_chain
chain_enabled(cfg) ==
    /\ cfg.use_chain_optimization
    /\ cfg.look_ahead_days > 0
    /\ cfg.chain_depth > 0

\* optimize_assignment_with_lookahead does not get past its sorted(...) call
sort_raises ==
    /\ config.assignment_strategy = "greedy_with_lookahead"
    /\ sorted_raises(filter_routes_by_lookahead(routes, config.assignment_lookahead_days))

InLoop(strategy) ==
    /\ pc = "run"
    /\ config.assignment_strategy = strategy
    /\ route_index < Len(routes_to_assign)
    /\ ~sort_raises

\* optimize_assignment_greedy, one route: a vehicle is found
GreedyAssign ==
    /\ InLoop("greedy")
    /\ LET route == current_route
           best == scan_vehicles(vehicle_ids, greedy_candidates(route), 1, NoBest)
       IN  /\ best.vehicle_id # None
           /\ ~update_state_raises(vehicle_states[best.vehicle_id], route,
                                   relation_lookup, config, cache_after_scan(route))
           /\ assignments' = Append(assignments,
                  assignment_record(route, best, cost_scale(vehicle_workloads)))
           /\ vehicle_workloads' =
                  [vehicle_workloads EXCEPT ![best.vehicle_id] = @ + 1]
           /\ vehicle_states' = [vehicle_states EXCEPT ![best.vehicle_id] =
                  update_state(@, route, relation_lookup, config, cache_after_scan(route))]
           /\ relation_cache' = cache_after_scan(route)
    /\ route_index' = route_index + 1
    /\ path_cache' = path_cache_after(path_cache, scan_lookups(current_route),
                                      relation_lookup, config.use_pathfinding)
    /\ UNCHANGED process_vars
    /\ UNCHANGED <<vehicles, routes, config, unassigned, pc>>

\* variant: the loop is left at the first route without a vehicle (`break')
GreedyUnassignedBreaks ==
    /\ InLoop("greedy")
    /\ LET route == current_route
           best == scan_vehicles(vehicle_ids, greedy_candidates(route), 1, NoBest)
       IN  /\ best.vehicle_id = None
           /\ unassigned' = Append(unassigned, route.id)
           /\ relation_cache' = cache_after_scan(route)
    /\ pc' = "done"
    /\ path_cache' = path_cache_after(path_cache, scan_lookups(current_route),
                                      relation_lookup, config.use_pathfinding)
    /\ UNCHANGED process_vars
    /\ UNCHANGED <<vehicles, routes, config, vehicle_states, vehicle_workloads,
                   assignments, route_index>>

\* optimize_assignment_greedy, one route: no vehicle is feasible
GreedyUnassigned ==
    /\ InLoop("greedy")
    /\ LET route == current_route
           best == scan_vehicles(vehicle_ids, greedy_candidates(route), 1, NoBest)
       IN  /\ best.vehicle_id = None
           /\ unassigned' = Append(unassigned, route.id)
           /\ relation_cache' = cache_after_scan(route)
    /\ route_index' = route_index + 1
    /\ path_cache' = path_cache_after(path_cache, scan_lookups(current_route),
                                      relation_lookup, config.use_pathfinding)
    /\ UNCHANGED process_vars
    /\ UNCHANGED <<vehicles, routes, config, vehicle_states, vehicle_workloads,
                   assignments, pc>>

\* optimize_assignment_with_lookahead, one route: a vehicle is found
LookaheadAssign ==
    /\ InLoop("greedy_with_lookahead")
    /\ ~chain_enabled(config)
    /\ LET route == current_route
           best == scan_vehicles(vehicle_ids, lookahead_candidates(route), 1, NoBest)
       IN  /\ best.vehicle_id # None
           /\ ~update_state_raises(vehicle_states[best.vehicle_id], route,
                                   relation_lookup, config, cache_after_scan(route))
           /\ assignments' = Append(assignments, assignment_record(route, best, 1))
           /\ vehicle_states' = [vehicle_states EXCEPT ![best.vehicle_id] =
                  update_state(@, route, relation_lookup, config, cache_after_scan(route))]
           /\ relation_cache' = cache_after_scan(route)
    /\ route_index' = route_index + 1
    /\ path_cache' = path_cache_after(path_cache, scan_lookups(current_route),
                                      relation_lookup, config.use_pathfinding)
    /\ UNCHANGED process_vars
    /\ UNCHANGED <<vehicles, routes, config, vehicle_workloads, unassigned, pc>>

\* variant: a route without a vehicle is passed over, it is put on no list
LookaheadUnassignedDropped ==
    /\ InLoop("greedy_with_lookahead")
    /\ ~chain_enabled(config)
    /\ LET route == current_route
           best == scan_vehicles(vehicle_ids, lookahead_candidates(route), 1, NoBest)
       IN  /\ best.vehicle_id = None
           /\ relation_cache' = cache_after_scan(route)
    /\ route_index' = route_index + 1
    /\ path_cache' = path_cache_after(path_cache, scan_lookups(current_route),
                                      relation_lookup, config.use_pathfinding)
    /\ UNCHANGED process_vars
    /\ UNCHANGED <<vehicles, routes, config, vehicle_states, vehicle_workloads,
                   assignments, unassigned, pc>>

\* optimize_assignment_with_lookahead, one route: no vehicle is feasible
LookaheadUnassigned ==
    /\ InLoop("greedy_with_lookahead")
    /\ ~chain_enabled(config)
    /\ LET route == current_route
           best == scan_vehicles(vehicle_ids, lookahead_candidates(route), 1, NoBest)
       IN  /\ best.vehicle_id = None
           /\ unassigned' = Append(unassigned, route.id)
           /\ relation_cache' = cache_after_scan(route)
    /\ route_index' = route_index + 1
    /\ path_cache' = path_cache_after(path_cache, scan_lookups(current_route),
                                      relation_lookup, config.use_pathfinding)
    /\ UNCHANGED process_vars
    /\ UNCHANGED <<vehicles, routes, config, vehicle_states, vehicle_workloads,
                   assignments, pc>>

\* the loop is over: (assignments, vehicle_states) is returned
Return ==
    /\ pc = "run"
    /\ route_index >= Len(routes_to_assign)
    /\ pc' = "done"
    /\ UNCHANGED service_vars
    /\ UNCHANGED <<vehicles, routes, config, vehicle_states, relation_cache,
                   vehicle_workloads, assignments, unassigned, route_index>>

Next ==
    \/ GreedyAssign
    \/ GreedyUnassigned
    \/ LookaheadAssign
    \/ LookaheadUnassigned
    \/ Return

Spec == Init /\ [][Next]_vars

(***************************************************************************)
(* Runs at the end of the calendar: a lease year that cannot be rolled     *)
(* over.  update_state raises after the assignment record was appended and *)
(* (greedy) the workload counted; the exception leaves the strategy.       *)
(***************************************************************************)
\* optimize_assignment_greedy, one route: update_state raises
GreedyAssignRaises ==
    /\ InLoop("greedy")
    /\ LET route == current_route
           best == scan_vehicles(vehicle_ids, greedy_candidates(route), 1, NoBest)
       IN  /\ best.vehicle_id # None
           /\ update_state_raises(vehicle_states[best.vehicle_id], route,
                                  relation_lookup, config, cache_after_scan(route))
           /\ assignments' = Append(assignments,
                  assignment_record(route, best, cost_scale(vehicle_workloads)))
           /\ vehicle_workloads' =
                  [vehicle_workloads EXCEPT ![best.vehicle_id] = @ + 1]
           /\ vehicle_states' = [vehicle_states EXCEPT ![best.vehicle_id] =
                  update_state_interrupted(@, route, relation_lookup, config,
                                           cache_after_scan(route))]
           /\ relation_cache' = cache_after_scan(route)
    /\ pc' = "raised"
    /\ path_cache' = path_cache_after(path_cache, scan_lookups(current_route),
                                      relation_lookup, config.use_pathfinding)
    /\ UNCHANGED process_vars
    /\ UNCHANGED <<vehicles, routes, config, unassigned, route_index>>

\* optimize_assignment_with_lookahead, one route: update_state raises
LookaheadAssignRaises ==
    /\ InLoop("greedy_with_lookahead")
    /\ ~chain_enabled(config)
    /\ LET route == current_route
           best == scan_vehicles(vehicle_ids, lookahead_candidates(route), 1, NoBest)
       IN  /\ best.vehicle_id # None
           /\ update_state_raises(vehicle_states[best.vehicle_id], route,
                                  relation_lookup, config, cache_after_scan(route))
           /\ assignments' = Append(assignments, assignment_record(route, best, 1))
           /\ vehicle_states' = [vehicle_states EXCEPT ![best.vehicle_id] =
                  update_state_interrupted(@, route, relation_lookup, config,
                                           cache_after_scan(route))]
           /\ relation_cache' = cache_after_scan(route)
    /\ pc' = "raised"
    /\ path_cache' = path_cache_after(path_cache, scan_lookups(current_route),
                                      relation_lookup, config.use_pathfinding)
    /\ UNCHANGED process_vars
    /\ UNCHANGED <<vehicles, routes, config, vehicle_workloads, unassigned,
                   route_index>>

\* routes around the lease end 5 * Year of vehicle 2
CalendarEndCatalogue ==
    {Route(5 * Year - 2 * Day, 5 * Year - Day, 1, 2, 300),
     Route(5 * Year - 12 * Hour, 5 * Year + 12 * Hour, 2, 1, 200),
     Route(5 * Year + Day, 5 * Year + 2 * Day, 1, 3, 100)}

CalendarEndRouteLists ==
    {[i \in 1..MaxRoutes |-> [id |-> i] @@ f[i]] :
        f \in {f \in [1..MaxRoutes -> CalendarEndCatalogue] :
                 \A i \in 1..(MaxRoutes - 1) :
                     f[i].start_datetime <= f[i + 1].start_datetime}}

InitCalendarEnd ==
    /\ vehicles \in {<<v1, v2>> : v1 \in Vehicle1Set, v2 \in Vehicle2Set}
    /\ routes \in CalendarEndRouteLists
    /\ config \in Configs
    /\ vehicle_states = initialize_states(vehicles, routes[1].start_datetime)
    /\ relation_cache = << >>
    /\ vehicle_workloads = [id \in {vehicles[i].id : i \in DOMAIN vehicles} |-> 0]
    /\ assignments = << >>
    /\ unassigned = << >>
    /\ route_index = 0
    /\ pc = "run"
    /\ ServiceIdle

NextCalendarEnd ==
    \/ GreedyAssign
    \/ GreedyAssignRaises
    \/ GreedyUnassigned
    \/ LookaheadAssign
    \/ LookaheadAssignRaises
    \/ LookaheadUnassigned
    \/ Return

SpecCalendarEnd == InitCalendarEnd /\ [][NextCalendarEnd]_vars

(***************************************************************************)
(* Runs over both orders of the vehicle list: vehicle_states is a dict     *)
(* filled in list order, and both scans walk vehicle_states.items().       *)
(***************************************************************************)
InitVehicleOrder ==
    /\ vehicles \in {<<v1, v2>> : v1 \in Vehicle1Set, v2 \in Vehicle2Set}
                    \cup {<<v2, v1>> : v1 \in Vehicle1Set, v2 \in Vehicle2Set}
    /\ \A i \in DOMAIN vehicles : vehicles[i].leasing_end_date = 5 * Year
    /\ routes \in RouteLists
    /\ config \in Configs
    /\ vehicle_states = initialize_states(vehicles, routes[1].start_datetime)
    /\ relation_cache = << >>
    /\ vehicle_workloads = [id \in {vehicles[i].id : i \in DOMAIN vehicles} |-> 0]
    /\ assignments = << >>
    /\ unassigned = << >>
    /\ route_index = 0
    /\ pc = "run"
    /\ ServiceIdle

SpecVehicleOrder == InitVehicleOrder /\ [][Next]_vars

(***************************************************************************)
(* Runs with two vehicles that differ in nothing but their id and the      *)
(* location they stand at, in both orders of the vehicle list.             *)
(***************************************************************************)
InitTwinVehicles ==
    /\ vehicles \in {<<v, [w EXCEPT !.id = 3]>> : v \in Vehicle2Set, w \in Vehicle2Set}
                    \cup {<<[w EXCEPT !.id = 3], v>> : v \in Vehicle2Set, w \in Vehicle2Set}
    /\ routes \in RouteLists
    /\ config \in Configs
    /\ vehicle_states = initialize_states(vehicles, routes[1].start_datetime)
    /\ relation_cache = << >>
    /\ vehicle_workloads = [id \in {vehicles[i].id : i \in DOMAIN vehicles} |-> 0]
    /\ assignments = << >>
    /\ unassigned = << >>
    /\ route_index = 0
    /\ pc = "run"
    /\ ServiceIdle

SpecTwinVehicles == InitTwinVehicles /\ [][Next]_vars

(***************************************************************************)
(* Runs with vehicle 1 standing at location 5, whose stored relation to    *)
(* location 1 has distance 0 and time 0.                                   *)
(***************************************************************************)
InitZeroWeight ==
    /\ vehicles \in {<<[v1 EXCEPT !.current_location_id = 5], v2>> :
                        v1 \in {v \in Vehicle1Set : v.leasing_end_date = 5 * Year},
                        v2 \in Vehicle2Set}
    /\ routes \in RouteLists
    /\ config \in Configs
    /\ vehicle_states = initialize_states(vehicles, routes[1].start_datetime)
    /\ relation_cache = << >>
    /\ vehicle_workloads = [id \in {vehicles[i].id : i \in DOMAIN vehicles} |-> 0]
    /\ assignments = << >>
    /\ unassigned = << >>
    /\ route_index = 0
    /\ pc = "run"
    /\ ServiceIdle

SpecZeroWeight == InitZeroWeight /\ [][Next]_vars

(***************************************************************************)
(* Runs with and without multi-hop pathfinding and with and without the    *)
(* per-run relation cache (algorithm_config.json).                         *)
(***************************************************************************)
OracleConfigs ==
    [assignment_strategy : {"greedy", "greedy_with_lookahead"},
     assignment_lookahead_days : {0},
     use_chain_optimization : {FALSE},
     use_pathfinding : {TRUE, FALSE},
     use_relation_cache : {TRUE, FALSE}]

InitOracle ==
    /\ vehicles \in {<<v1, v2>> :
                        v1 \in {v \in Vehicle1Set : v.leasing_end_date = 5 * Year},
                        v2 \in Vehicle2Set}
    /\ routes \in RouteLists
    /\ config \in OracleConfigs
    /\ vehicle_states = initialize_states(vehicles, routes[1].start_datetime)
    /\ relation_cache = << >>
    /\ vehicle_workloads = [id \in {vehicles[i].id : i \in DOMAIN vehicles} |-> 0]
    /\ assignments = << >>
    /\ unassigned = << >>
    /\ route_index = 0
    /\ pc = "run"
    /\ ServiceIdle

SpecOracle == InitOracle /\ [][Next]_vars

(***************************************************************************)
(* Runs with an assignment window (assignment_lookahead_days of            *)
(* algorithm_config.json): routes start inside the window, exactly at its  *)
(* end, and after it.                                                      *)
(***************************************************************************)
WindowCatalogue ==
    {Route(0, 10 * Hour, 1, 2, 900),
     Route(Day - Hour, Day + 2 * Hour, 2, 1, 300),
     Route(Day, Day + 5 * Hour, 1, 3, 620),
     Route(2 * Day, 2 * Day + 5 * Hour, 3, 1, 300)}

WindowRouteLists ==
    {[i \in 1..MaxRoutes |-> [id |-> i] @@ f[i]] :
        f \in {f \in [1..MaxRoutes -> WindowCatalogue] :
                 /\ f[1].start_datetime = 0
                 /\ \A i \in 1..(MaxRoutes - 1) :
                        f[i].start_datetime <= f[i + 1].start_datetime}}

WindowConfigs ==
    [assignment_strategy : {"greedy", "greedy_with_lookahead"},
     assignment_lookahead_days : {0 - 1, 1, 2},
     use_chain_optimization : {FALSE},
     use_pathfinding : {TRUE},
     use_relation_cache : {TRUE}]

InitLookaheadWindow ==
    /\ vehicles \in {<<v1, v2>> :
                        v1 \in {v \in Vehicle1Set : v.leasing_end_date = 5 * Year},
                        v2 \in Vehicle2Set}
    /\ routes \in WindowRouteLists
    /\ config \in WindowConfigs
    /\ vehicle_states = initialize_states(vehicles, routes[1].start_datetime)
    /\ relation_cache = << >>
    /\ vehicle_workloads = [id \in {vehicles[i].id : i \in DOMAIN vehicles} |-> 0]
    /\ assignments = << >>
    /\ unassigned = << >>
    /\ route_index = 0
    /\ pc = "run"
    /\ ServiceIdle

SpecLookaheadWindow == InitLookaheadWindow /\ [][Next]_vars

(***************************************************************************)
(* Runs over route files with rows that fail validate_route: a route       *)
(* without segments (start_location_id and end_location_id are None), a    *)
(* distance of zero or less, an end that is not after the start.           *)
(***************************************************************************)
InvalidCatalogue ==
    {Route(0, 10 * Hour, 1, 2, 900),
     Route(0, 10 * Hour, None, None, 900),
     Route(11 * Hour, 11 * Hour + 30 * Minute, 3, 1, 0),
     Route(11 * Hour, 11 * Hour + 30 * Minute, 3, 1, 0 - 50),
     Route(11 * Hour, 11 * Hour, 3, 1, 300),
     Route(11 * Hour, 11 * Hour + 30 * Minute, 3, 1, 300),
     Route(61 * Hour, 60 * Hour, 1, 3, 155),
     Route(61 * Hour, 62 * Hour, None, None, 155)}

InvalidRouteLists ==
    {[i \in 1..MaxRoutes |-> [id |-> i] @@ f[i]] :
        f \in {f \in [1..MaxRoutes -> InvalidCatalogue] :
                 \A i \in 1..(MaxRoutes - 1) :
                     f[i].start_datetime <= f[i + 1].start_datetime}}

InitInvalidRoutes ==
    /\ vehicles \in {<<v1, v2>> :
                        v1 \in {v \in Vehicle1Set : /\ v.leasing_end_date = 5 * Year
                                                    /\ v.leasing_limit_km = 100000
                                                    /\ v.current_location_id \in {1, 3}},
                        v2 \in {v \in Vehicle2Set : v.current_location_id \in {1, 3}}}
    /\ routes \in InvalidRouteLists
    /\ config \in Configs
    /\ vehicle_states = initialize_states(vehicles, routes[1].start_datetime)
    /\ relation_cache = << >>
    /\ vehicle_workloads = [id \in {vehicles[i].id : i \in DOMAIN vehicles} |-> 0]
    /\ assignments = << >>
    /\ unassigned = << >>
    /\ route_index = 0
    /\ pc = "run"
    /\ ServiceIdle

\* optimize_assignment_with_lookahead: sorted(routes_to_assign, key=...) raises
\* before the first route is looked at; the exception leaves the strategy
LookaheadSortRaises ==
    /\ pc = "run"
    /\ route_index = 0
    /\ sort_raises
    /\ pc' = "raised"
    /\ UNCHANGED service_vars
    /\ UNCHANGED <<vehicles, routes, config, vehicle_states, relation_cache,
                   vehicle_workloads, assignments, unassigned, route_index>>

NextInvalidRoutes ==
    \/ GreedyAssign
    \/ GreedyUnassigned
    \/ LookaheadSortRaises
    \/ LookaheadAssign
    \/ LookaheadUnassigned
    \/ Return

SpecInvalidRoutes == InitInvalidRoutes /\ [][NextInvalidRoutes]_vars

(***************************************************************************)
(* The lookahead loop with chain optimisation switched on: for every       *)
(* feasible vehicle build_future_chain scores the routes of the file the   *)
(* vehicle could take after the current one.  A route score               *)
(* 1000 / (cost + 100) is kept in thousandths, the effective cost          *)
(* cost - chain_score * chain_weight * 2 in thousandths of a PLN.          *)
(***************************************************************************)
\* future_state: the route simulated on a vehicle state
future_state(s, route) ==
    [s EXCEPT !.current_location_id = route.end_location_id,
              !.available_from = route.end_datetime,
              !.current_odometer_km = @ + IntKm(route.distance_km),
              !.km_driven_this_lease_year = @ + IntKm(route.distance_km),
              !.total_lifetime_km = @ + IntKm(route.distance_km),
              !.km_since_last_service = @ + IntKm(route.distance_km)]

\* variant: future_state is the dictionary of the caller, not a copy of it
state_after_chain_aliased(s, route, all_routes, position, cfg) ==
    IF ~cfg.use_chain_optimization \/ cfg.chain_depth <= 0 \/ position >= Len(all_routes)
      THEN s
      ELSE future_state(s, route)

\* the state of the caller after build_future_chain: the route is simulated
\* on deepcopy(vehicle_state)
state_after_chain(s, route, all_routes, position, cfg) == s

\* the positions of all_routes the loop of build_future_chain visits after
\* position (the place of the current route, counted from 1): it stops at
\* max_scan and at the first route starting after look_ahead_end
chain_scanned(route, all_routes, position, cfg) ==
    LET look_ahead_end == route.end_datetime + cfg.look_ahead_days * Day
        max_scan == Min2(position - 1 + cfg.max_lookahead_routes, Len(all_routes))
    IN  {i \in (position + 1)..max_scan :
            \A k \in (position + 1)..i : all_routes[k].start_datetime <= look_ahead_end}

\* one route of the scan: None when the vehicle cannot take it (not available,
\* no relation, arrival after the start), else the cost of taking it
chain_cost(future, next_route, relation, cost) ==
    IF /\ future.available_from <= next_route.start_datetime
       /\ \/ future.current_location_id = next_route.start_location_id
          \/ /\ relation # NoRelation
             /\ future.available_from + relation.time <= next_route.start_datetime
      THEN cost
      ELSE None

\* the candidates sorted by score (stable, best first), the first chain_depth
\* of them added up with weights 0.5 ** i; in thousandths
chain_score(costs, chain_depth) ==
    LET candidate_routes == {i \in DOMAIN costs : costs[i] # None}
        place(i) == Cardinality({k \in candidate_routes :
                                    \/ costs[k] < costs[i]
                                    \/ costs[k] = costs[i] /\ k < i})
        weighted == [i \in candidate_routes |->
                        IF place(i) < chain_depth
                          THEN ((1000 * 100 * 1000) \div (costs[i] + 100 * 100))
                               \div (2 ^ place(i))
                          ELSE 0]
    IN  SumOver(weighted, candidate_routes)

\* the relation build_future_chain works with: the cached one when there is one
chain_relation(from_location, to_location, lookup, cfg, cache) ==
    IF cfg.use_relation_cache /\ <<from_location, to_location>> \in DOMAIN cache
      THEN cache[<<from_location, to_location>>]
      ELSE get_relation(from_location, to_location, lookup, cfg.use_pathfinding)

build_future_chain(s, route, all_routes, position, lookup, cfg, cache) ==
    IF ~cfg.use_chain_optimization \/ cfg.chain_depth <= 0
       \/ position >= Len(all_routes)
      THEN 0
      ELSE chain_score(
               [i \in chain_scanned(route, all_routes, position, cfg) |->
                   chain_cost(future_state(s, route), all_routes[i],
                              chain_relation(route.end_location_id,
                                             all_routes[i].start_location_id,
                                             lookup, cfg, cache),
                              calculate_assignment_cost(future_state(s, route),
                                  all_routes[i], lookup, cfg, cache, NoWorkloads))],
               cfg.chain_depth)

\* routes.index(route), counted from 1
full_route_index(route) ==
    CHOOSE i \in DOMAIN routes :
        routes[i] = route /\ \A k \in 1..(i - 1) : routes[k] # route

\* one vehicle of the scan: immediate cost in grosze, chain score and
\* effective cost in thousandths
chain_candidate(feasible, immediate, chain, chain_weight) ==
    [feasible |-> feasible,
     immediate_cost |-> immediate,
     chain_score |-> IF feasible THEN chain ELSE 0,
     cost |-> IF feasible THEN immediate * 10 - chain * chain_weight * 2 ELSE 0]

chain_candidates(route) ==
    [id \in DOMAIN vehicle_states |->
        chain_candidate(
            check_feasibility(vehicle_states[id], route, relation_lookup, config,
                              relation_cache) = "OK",
            calculate_assignment_cost(vehicle_states[id], route, relation_lookup,
                                      config, relation_cache, NoWorkloads),
            build_future_chain(vehicle_states[id], route, routes,
                               full_route_index(route), relation_lookup, config,
                               relation_cache),
            config.chain_weight)]

\* the pairs build_future_chain asks the oracle for when it is called for a route
chain_lookups(route, position) ==
    IF position < Len(routes)
      THEN {<<route.end_location_id, routes[i].start_location_id>> :
               i \in {i \in chain_scanned(route, routes, position, config) :
                         /\ route.end_datetime <= routes[i].start_datetime
                         /\ route.end_location_id # routes[i].start_location_id}}
      ELSE {}

\* the per-run cache after a scan that found a feasible vehicle
cache_after_chain_scan(route) ==
    IF config.use_relation_cache
      THEN [k \in chain_lookups(route, full_route_index(route)) |->
               get_relation(k[1], k[2], relation_lookup, config.use_pathfinding)]
           @@ cache_after_scan(route)
      ELSE relation_cache

\* the vehicle states when the scan of one route is over
states_after_scan(route, candidates) ==
    [id \in DOMAIN vehicle_states |->
        IF candidates[id].feasible
          THEN state_after_chain(vehicle_states[id], route, routes,
                                 full_route_index(route), config)
          ELSE vehicle_states[id]]

\* the assignment of the route to the vehicle the scan found
chain_accept(route, candidates, best, cache) ==
    /\ best.vehicle_id # None
    /\ ~update_state_raises(vehicle_states[best.vehicle_id], route, relation_lookup,
                            config, cache)
    /\ assignments' = Append(assignments,
           [assignment_record(route,
                              [vehicle_id |-> best.vehicle_id,
                               cost |-> candidates[best.vehicle_id].immediate_cost], 1)
                EXCEPT !.chain_score = candidates[best.vehicle_id].chain_score])
    /\ vehicle_states' = [states_after_scan(route, candidates) EXCEPT
                             ![best.vehicle_id] =
                                 update_state(@, route, relation_lookup, config, cache)]
    /\ relation_cache' = cache

\* optimize_assignment_with_lookahead with chains, one route: a vehicle is found
ChainAssign ==
    /\ InLoop("greedy_with_lookahead")
    /\ chain_enabled(config)
    /\ chain_accept(current_route, chain_candidates(current_route),
                    scan_vehicles(vehicle_ids, chain_candidates(current_route), 1, NoBest),
                    cache_after_chain_scan(current_route))
    /\ route_index' = route_index + 1
    /\ path_cache' = path_cache_after(path_cache,
                         scan_lookups(current_route)
                             \cup chain_lookups(current_route,
                                                full_route_index(current_route)),
                         relation_lookup, config.use_pathfinding)
    /\ UNCHANGED process_vars
    /\ UNCHANGED <<vehicles, routes, config, vehicle_workloads, unassigned, pc>>

\* optimize_assignment_with_lookahead with chains, one route: no vehicle is
\* feasible, build_future_chain is not called
ChainUnassigned ==
    /\ InLoop("greedy_with_lookahead")
    /\ chain_enabled(config)
    /\ scan_vehicles(vehicle_ids, chain_candidates(current_route), 1, NoBest).vehicle_id
           = None
    /\ unassigned' = Append(unassigned, current_route.id)
    /\ relation_cache' = cache_after_scan(current_route)
    /\ route_index' = route_index + 1
    /\ path_cache' = path_cache_after(path_cache, scan_lookups(current_route),
                                      relation_lookup, config.use_pathfinding)
    /\ UNCHANGED process_vars
    /\ UNCHANGED <<vehicles, routes, config, vehicle_states, vehicle_workloads,
                   assignments, pc>>

\* configurations with chain optimisation on (chain_weight as in main.py)
ChainConfigs ==
    {c \in [assignment_strategy : {"greedy_with_lookahead"},
            assignment_lookahead_days : {0},
            use_chain_optimization : {TRUE},
            look_ahead_days : {1, 7},
            chain_depth : {1, 2},
            chain_weight : {10},
            max_lookahead_routes : {2, 50},
            use_pathfinding : {TRUE},
            use_relation_cache : {TRUE}] :
        c.max_lookahead_routes = 50 \/ (c.look_ahead_days = 7 /\ c.chain_depth = 2)}

InitChain ==
    /\ vehicles \in {<<v1, v2>> : v1 \in Vehicle1Set, v2 \in Vehicle2Set}
    /\ routes \in RouteLists
    /\ config \in ChainConfigs
    /\ vehicle_states = initialize_states(vehicles, routes[1].start_datetime)
    /\ relation_cache = << >>
    /\ vehicle_workloads = [id \in {vehicles[i].id : i \in DOMAIN vehicles} |-> 0]
    /\ assignments = << >>
    /\ unassigned = << >>
    /\ route_index = 0
    /\ pc = "run"
    /\ ServiceIdle

NextChain ==
    \/ ChainAssign
    \/ ChainUnassigned
    \/ Return

SpecChain == InitChain /\ [][NextChain]_vars

(***************************************************************************)
(* algorithms/placement.py called on its own: analyze_route_flow,          *)
(* coverage_first_assignment and optimize_placement with its three         *)
(* strategies.  A dictionary is a sequence of <<key, value>> pairs in      *)
(* insertion order; costs are in thousandths.                              *)
(***************************************************************************)
Max2(a, b) == IF a >= b THEN a ELSE b

\* `if route.start_location_id:' -- None and 0 do not pass
truthy(location_id) == location_id # None /\ location_id # 0

dict_keys(d) == {d[j][1] : j \in DOMAIN d}

\* d.get(key, 0)
dict_get(d, key) ==
    IF key \in dict_keys(d) THEN d[CHOOSE j \in DOMAIN d : d[j][1] = key][2] ELSE 0

\* defaultdict(int): counts[id] += 1 for the ids that pass the test, in order
RECURSIVE tally(_, _, _)
tally(ids, i, counts) ==
    IF i > Len(ids) THEN counts
    ELSE IF ~truthy(ids[i]) THEN tally(ids, i + 1, counts)
    ELSE IF ids[i] \in dict_keys(counts)
      THEN tally(ids, i + 1,
                 [j \in DOMAIN counts |->
                     IF counts[j][1] = ids[i] THEN <<ids[i], counts[j][2] + 1>>
                     ELSE counts[j]])
    ELSE tally(ids, i + 1, Append(counts, <<ids[i], 1>>))

\* the elements of a set of location ids, smallest first
ascending(S) ==
    [i \in 1..Cardinality(S) |->
        CHOOSE x \in S : Cardinality({y \in S : y < x}) = i - 1]

\* starts, ends, net_demand and total_activity of the routes of the window;
\* the last two are filled in the order of set(starts) | set(ends)
analyze_route_flow(rs) ==
    LET starts == tally([i \in DOMAIN rs |-> rs[i].start_location_id], 1, << >>)
        ends == tally([i \in DOMAIN rs |-> rs[i].end_location_id], 1, << >>)
        all_locations == ascending(dict_keys(starts) \cup dict_keys(ends))
    IN  [starts |-> starts,
         ends |-> ends,
         net_demand |-> [i \in DOMAIN all_locations |->
                            <<all_locations[i], dict_get(starts, all_locations[i])
                                                - dict_get(ends, all_locations[i])>>],
         total_activity |-> [i \in DOMAIN all_locations |->
                                <<all_locations[i], dict_get(starts, all_locations[i])
                                                    + dict_get(ends, all_locations[i])>>]]

\* sorted(d.items(), key=lambda x: x[1], reverse=True): stable, largest first
sorted_by_count(d) ==
    [i \in DOMAIN d |->
        d[CHOOSE j \in DOMAIN d :
              Cardinality({k \in DOMAIN d : \/ d[k][2] > d[j][2]
                                            \/ d[k][2] = d[j][2] /\ k < j}) = i - 1]]

total_count(d) == SumOver([j \in DOMAIN d |-> d[j][2]], DOMAIN d)

Repeat(x, k) == [i \in 1..k |-> x]

CountOf(placed, location) == Cardinality({i \in DOMAIN placed : placed[i] = location})

\* placement[vehicles[i].id] = placed[i] for i = 0, 1, ...
placement_dict(vs, placed) ==
    [id \in {vs[i].id : i \in DOMAIN vs} |->
        placed[CHOOSE i \in DOMAIN vs :
                   vs[i].id = id /\ \A k \in DOMAIN vs : vs[k].id = id => k <= i]]

\* {v.id: 1 for v in vehicles}
fallback_placement(vs) == [id \in {vs[i].id : i \in DOMAIN vs} |-> 1]

\* phase 2 of coverage_first_assignment: the locations in demand order are
\* filled up to their proportional share
RECURSIVE coverage_phase2(_, _, _, _, _)
coverage_phase2(sorted_locations, i, placed, n_vehicles, max_per_location) ==
    IF i > Len(sorted_locations) \/ Len(placed) >= n_vehicles THEN placed
    ELSE LET target_count ==
                 Min2(Max2(1, (n_vehicles * sorted_locations[i][2])
                                  \div total_count(sorted_locations)),
                      max_per_location)
             to_place == Max2(0, Min2(target_count
                                          - CountOf(placed, sorted_locations[i][1]),
                                      n_vehicles - Len(placed)))
         IN  coverage_phase2(sorted_locations, i + 1,
                             placed \o Repeat(sorted_locations[i][1], to_place),
                             n_vehicles, max_per_location)

coverage_first_assignment(vs, d, max_concentration) ==
    LET n_vehicles == Len(vs)
        sorted_locations == sorted_by_count(d)
        phase1 == [i \in 1..(IF Len(d) <= n_vehicles THEN Len(d)
                             ELSE Min2(n_vehicles \div 2, Len(d))) |->
                      sorted_locations[i][1]]
        phase2 == IF n_vehicles - Len(phase1) > 0
                    THEN coverage_phase2(sorted_locations, 1, phase1, n_vehicles,
                             Max2(3, (n_vehicles * max_concentration) \div 100))
                    ELSE phase1
    IN  IF d = << >> THEN fallback_placement(vs)
        ELSE placement_dict(vs, phase2 \o Repeat(sorted_locations[1][1],
                                                 n_vehicles - Len(phase2)))

RECURSIVE proportional_fill(_, _, _, _, _)
proportional_fill(sorted_locations, i, placed, n_vehicles, max_per_location) ==
    IF i > Len(sorted_locations) \/ Len(placed) >= n_vehicles THEN placed
    ELSE LET vehicles_needed ==
                 Min2(Min2(Max2(1, (n_vehicles * sorted_locations[i][2])
                                       \div total_count(sorted_locations)),
                           max_per_location),
                      n_vehicles - Len(placed))
         IN  proportional_fill(sorted_locations, i + 1,
                               placed \o Repeat(sorted_locations[i][1], vehicles_needed),
                               n_vehicles, max_per_location)

\* variant: the vehicles left over after the proportional pass get no location
balanced_proportional_assignment_without_remainder(d, vs, max_concentration) ==
    LET sorted_locations == sorted_by_count(d)
        placed == proportional_fill(sorted_locations, 1, << >>, Len(vs),
                      Max2(1, (Len(vs) * max_concentration) \div 100))
    IN  IF d = << >> THEN fallback_placement(vs)
        ELSE placement_dict(SubSeq(vs, 1, Len(placed)), placed)

balanced_proportional_assignment(d, vs, max_concentration) ==
    LET sorted_locations == sorted_by_count(d)
        placed == proportional_fill(sorted_locations, 1, << >>, Len(vs),
                      Max2(1, (Len(vs) * max_concentration) \div 100))
    IN  IF d = << >> THEN fallback_placement(vs)
        ELSE placement_dict(vs, placed \o Repeat(sorted_locations[1][1],
                                                 Len(vs) - Len(placed)))

\* 1000 * (1.0 / np.log(local_activity + 2)) for local_activity = 1, 2, ...
LogCost == <<910239, 721348, 621335, 558111, 513898, 480898, 455120, 434294,
             417032, 402430>>

\* 5000 * (excess ** 1.5) for excess = 1, 2, ...
StrongPenalty == <<5000000, 14142136, 25980762, 40000000>>

\* one row of the cost matrix (the rows of all vehicles are alike) and the
\* locations of its columns
build_cost_matrix(d, lookup, flow_data) ==
    LET activity == IF flow_data.total_activity # << >>
                      THEN flow_data.total_activity ELSE d
        net_demand == IF flow_data.total_activity # << >>
                        THEN flow_data.net_demand ELSE d
        locations == ascending(dict_keys(activity))
        net_demand_bonus(l) ==
            IF dict_get(net_demand, l) > 0
              THEN 0 - Min2(200, dict_get(net_demand, l) * 10)
            ELSE IF dict_get(net_demand, l) < 0
              THEN Min2(100, (0 - dict_get(net_demand, l)) * 5)
            ELSE 0
        other_locations(l) == SelectSeq(locations, LAMBDA o : o # l)
        check_count(l) == Min2(20, Len(other_locations(l)))
        connected_count(l) ==
            Cardinality({k \in 1..check_count(l) :
                            \/ <<l, other_locations(l)[k]>> \in DOMAIN lookup
                            \/ <<other_locations(l)[k], l>> \in DOMAIN lookup})
        connectivity_bonus(l) ==
            IF Len(other_locations(l)) >= 5 /\ 2 * connected_count(l) > check_count(l)
              THEN 0 - (300 * 1000 * connected_count(l)) \div check_count(l)
              ELSE 0
    IN  IF activity = << >>
          THEN [locations |-> <<1>>, cost |-> <<1000 * 1000>>]
          ELSE [locations |-> locations,
                cost |-> [j \in DOMAIN locations |->
                             LogCost[dict_get(activity, locations[j])]
                             + net_demand_bonus(locations[j]) * 1000
                             + connectivity_bonus(locations[j])]]

\* the soft concentration penalty of a location that holds current_count vehicles
concentration_penalty(current_count, max_per_location) ==
    IF current_count >= max_per_location
      THEN StrongPenalty[current_count - max_per_location + 1]
    ELSE IF 10 * current_count > 7 * max_per_location
      THEN (1000 * 1000 * (10 * current_count - 7 * max_per_location)
                        * (10 * current_count - 7 * max_per_location))
           \div (9 * max_per_location * max_per_location)
    ELSE 0

\* the vehicles in order, each to the first location of least adjusted cost
RECURSIVE greedy_min_cost_scan(_, _, _, _)
greedy_min_cost_scan(matrix, n_vehicles, max_per_location, placed) ==
    IF Len(placed) >= n_vehicles THEN placed
    ELSE LET adjusted_cost(j) ==
                 matrix.cost[j]
                 + concentration_penalty(CountOf(placed, matrix.locations[j]),
                                         max_per_location)
             best_loc_idx ==
                 CHOOSE j \in DOMAIN matrix.locations :
                     /\ \A k \in DOMAIN matrix.locations :
                            adjusted_cost(j) <= adjusted_cost(k)
                     /\ \A k \in 1..(j - 1) : adjusted_cost(k) > adjusted_cost(j)
         IN  greedy_min_cost_scan(matrix, n_vehicles, max_per_location,
                                  Append(placed, matrix.locations[best_loc_idx]))

greedy_min_cost_assignment(matrix, vs, max_per_location, max_concentration) ==
    IF matrix.locations = << >> THEN fallback_placement(vs)
    ELSE placement_dict(vs,
             greedy_min_cost_scan(matrix, Len(vs),
                 IF max_per_location = None
                   THEN Max2(5, (Len(vs) * max_concentration) \div 100)
                   ELSE max_per_location,
                 << >>))

\* the routes optimize_placement analyses
placement_window(rs, cfg) ==
    IF rs # << >> /\ cfg.placement_lookahead_days > 0
      THEN SelectSeq(rs, LAMBDA r : r.start_datetime
                                       < rs[1].start_datetime
                                         + cfg.placement_lookahead_days * Day)
      ELSE rs

\* the placement optimize_placement returns
optimize_placement(vs, rs, lookup, cfg, strategy) ==
    IF strategy = "coverage_first"
      THEN coverage_first_assignment(vs,
               analyze_route_flow(placement_window(rs, cfg)).starts,
               cfg.placement_max_concentration)
    ELSE IF strategy = "cost_matrix"
      THEN greedy_min_cost_assignment(
               build_cost_matrix(analyze_route_flow(placement_window(rs, cfg)).starts,
                                 lookup, analyze_route_flow(placement_window(rs, cfg))),
               vs, cfg.placement_max_vehicles_per_location,
               cfg.placement_max_concentration)
    ELSE balanced_proportional_assignment(
             IF analyze_route_flow(placement_window(rs, cfg)).total_activity # << >>
               THEN analyze_route_flow(placement_window(rs, cfg)).total_activity
               ELSE analyze_route_flow(placement_window(rs, cfg)).starts,
             vs, cfg.placement_max_concentration)

PlacementVehicle(id) ==
    [id |-> id, service_interval_km |-> 30000, leasing_start_km |-> 7,
     leasing_limit_km |-> 100000, leasing_start_date |-> 4 * Year,
     leasing_end_date |-> 5 * Year, current_odometer_km |-> 7,
     current_location_id |-> 1]

\* fleets of one, two and three vehicles
PlacementFleets ==
    {<<PlacementVehicle(1)>>,
     <<PlacementVehicle(1), PlacementVehicle(2)>>,
     <<PlacementVehicle(2), PlacementVehicle(1), PlacementVehicle(3)>>}

\* routes with segments, a route without segments, a route from location 0,
\* a route after the placement window
PlacementCatalogue ==
    {Route(0, 10 * Hour, 1, 2, 900),
     Route(0, 10 * Hour, 3, 2, 457),
     Route(0, 10 * Hour, None, None, 900),
     Route(11 * Hour, 11 * Hour + 30 * Minute, 3, 1, 300),
     Route(11 * Hour, 11 * Hour + 30 * Minute, 0, 3, 300),
     Route(20 * Day, 20 * Day + Hour, 4, 3, 155)}

PlacementRouteLists ==
    {[i \in 1..MaxRoutes |-> [id |-> i] @@ f[i]] :
        f \in {f \in [1..MaxRoutes -> PlacementCatalogue] :
                 \A i \in 1..(MaxRoutes - 1) :
                     f[i].start_datetime <= f[i + 1].start_datetime}}

PlacementConfigs ==
    [placement_lookahead_days : {0, 14},
     placement_max_concentration : {30},
     placement_max_vehicles_per_location : {None, 1}]

\* demand dictionaries over four locations: a location is asked for once or
\* six times
Demands ==
    UNION {{d \in [1..n -> (1..4) \X {1, 6}] :
               \A i, j \in 1..n : i # j => d[i][1] # d[j][1]} : n \in 0..4}

\* a call on a route file, or a call of coverage_first_assignment with a
\* demand dictionary of its own
InitPlacement ==
    /\ vehicles \in PlacementFleets
    /\ config \in PlacementConfigs
    /\ \/ routes \in PlacementRouteLists /\ demand = << >>
       \/ routes = << >> /\ demand \in Demands
    /\ vehicle_states = << >>
    /\ relation_cache = << >>
    /\ vehicle_workloads = << >>
    /\ assignments = << >>
    /\ unassigned = << >>
    /\ route_index = 0
    /\ pc = "idle"
    /\ path_cache = clear_path_cache
    /\ call = NoCall
    /\ database = EmptyDatabase
    /\ pool = 0
    /\ response = NoResponse
    /\ relations = relation_lookup
    /\ returned = NoReturn

\* analyze_route_flow(lookahead_routes)
AnalyzeRouteFlow ==
    /\ returned' = [function |-> "analyze_route_flow",
                    value |-> analyze_route_flow(placement_window(routes, config))]
    /\ UNCHANGED <<run_vars, path_cache, call, database, pool, response, relations,
                   demand>>

\* coverage_first_assignment(vehicles, demand, max_concentration)
CoverageFirstAssignment ==
    /\ returned' = [function |-> "coverage_first_assignment",
                    value |-> coverage_first_assignment(vehicles, demand,
                                  config.placement_max_concentration)]
    /\ UNCHANGED <<run_vars, path_cache, call, database, pool, response, relations,
                   demand>>

\* optimize_placement(vehicles, routes, relation_lookup, config, strategy)
OptimizePlacement ==
    /\ \E strategy \in {"cost_matrix", "proportional", "coverage_first"} :
           returned' = [function |-> "optimize_placement", strategy |-> strategy,
                        value |-> optimize_placement(vehicles, routes, relations,
                                                     config, strategy)]
    /\ UNCHANGED <<run_vars, path_cache, call, database, pool, response, relations,
                   demand>>

NextPlacement ==
    \/ AnalyzeRouteFlow
    \/ CoverageFirstAssignment
    \/ OptimizePlacement

SpecPlacement == InitPlacement /\ [][NextPlacement]_vars

(***************************************************************************)
(* pathfinding.find_shortest_path called on its own, over relation tables  *)
(* (locations_relations.csv) of five locations: a relation is missing, or  *)
(* takes one hour, or takes ten.                                           *)
(***************************************************************************)
PathLocations == 1..5

\* the pairs a table may hold a relation for
PathPairs == {<<1, 2>>, <<2, 3>>, <<3, 4>>, <<1, 4>>, <<4, 5>>, <<5, 2>>}

PathTables ==
    UNION {[pairs -> {[id |-> 1, dist |-> 100, time |-> Hour],
                      [id |-> 2, dist |-> 100, time |-> 10 * Hour]}] :
              pairs \in SUBSET PathPairs}

InitPathfinding ==
    /\ vehicles = << >>
    /\ routes = << >>
    /\ config = [use_pathfinding |-> TRUE]
    /\ vehicle_states = << >>
    /\ relation_cache = << >>
    /\ vehicle_workloads = << >>
    /\ assignments = << >>
    /\ unassigned = << >>
    /\ route_index = 0
    /\ pc = "idle"
    /\ path_cache = clear_path_cache
    /\ call = NoCall
    /\ database = EmptyDatabase
    /\ pool = 0
    /\ response = NoResponse
    /\ relations \in PathTables
    /\ demand = << >>
    /\ returned = NoReturn

\* find_shortest_path(from_loc, to_loc, relation_lookup)
FindShortestPath ==
    /\ \E from_loc, to_loc \in PathLocations :
           returned' = [function |-> "find_shortest_path",
                        from_loc |-> from_loc, to_loc |-> to_loc,
                        value |-> find_shortest_path(from_loc, to_loc, relations)]
    /\ UNCHANGED <<run_vars, path_cache, call, database, pool, response, relations,
                   demand>>

SpecPathfinding == InitPathfinding /\ [][FindShortestPath]_vars

(***************************************************************************)
(* src/src/assignment.py, assign_routes with constraints.py and costs.py:  *)
(* the route-by-route assignment of run_optimizer and test_assignment.     *)
(* A relocation entry is (date, from, to); get_relation is called with     *)
(* its default use_pathfinding = True.                                     *)
(***************************************************************************)
\* the penalty of the relaxed pass (cost += 5000.0), in grosze
swap_violation_penalty == 500000

\* models.AssignmentConfig.service_penalty_pln, in grosze
service_penalty_pln == 50000

\* costs.calculate_relocation_cost's cost of a missing relation (999999.0), in grosze
NoPathCost == 99999900

VehicleState(vehicle, available_from) ==
    [vehicle_id |-> vehicle.id,
     current_location_id |-> vehicle.current_location_id,
     current_odometer_km |-> vehicle.current_odometer_km,
     km_since_last_service |-> 0,
     km_driven_this_lease_year |-> 0,
     total_lifetime_km |-> vehicle.current_odometer_km,
     available_from |-> available_from,
     last_route_id |-> None,
     lease_cycle_number |-> 1,
     lease_start_date |-> vehicle.leasing_start_date,
     lease_end_date |-> vehicle.leasing_end_date,
     annual_limit_km |-> annual_limit_km(vehicle),
     service_interval_km |-> vehicle.service_interval_km,
     total_contract_limit_km |-> total_contract_limit_km(vehicle),
     relocations_in_window |-> << >>,
     total_relocations |-> 0,
     total_relocation_cost |-> 0,
     total_overage_cost |-> 0,
     routes_completed |-> 0]

initialize_vehicle_states(vs, start_date) ==
    [id \in {vs[i].id : i \in DOMAIN vs} |->
        VehicleState(CHOOSE v \in {vs[i] : i \in DOMAIN vs} : v.id = id,
                     start_date - 24 * Hour)]

\* VehicleState.can_swap_at: no recorded relocation at or after the cutoff
can_swap_at(s, date, period_days) ==
    \/ s.relocations_in_window = << >>
    \/ \A i \in DOMAIN s.relocations_in_window :
           ~(s.relocations_in_window[i][1] >= date - period_days * Day)

\* VehicleState.needs_service(tolerance_km)
VehicleState_needs_service(s, tolerance_km) ==
    s.km_since_last_service > s.service_interval_km + tolerance_km

\* the arrival test of is_time_feasible, for the relation it looked up
arrives_on_time(s, route, relation) ==
    /\ relation # NoRelation
    /\ s.available_from + relation.time <= route.start_datetime

is_time_feasible(s, route, lookup) ==
    /\ ~(s.available_from > route.start_datetime)
    /\ s.current_location_id # route.start_location_id =>
           arrives_on_time(s, route,
               get_relation(s.current_location_id, route.start_location_id, lookup, TRUE))

check_service_need(s, route, cfg) ==
    s.km_since_last_service + IntKm(route.distance_km)
        > s.service_interval_km + cfg.service_tolerance_km

\* (violates, future_km)[0]
check_contract_limit(s, route) ==
    /\ s.total_contract_limit_km # None
    /\ s.total_lifetime_km + IntKm(route.distance_km) > s.total_contract_limit_km

\* (last_swap_date = relocations_in_window[-1][0]; timedelta.days is the floor)
days_since_last_swap(s, route) ==
    IF s.relocations_in_window # << >>
      THEN (route.start_datetime
              - s.relocations_in_window[Len(s.relocations_in_window)][1]) \div Day
      ELSE 999

\* the verdict of check_swap_policy once the relation was looked up
swap_policy_verdict(s, route, cfg, relation) ==
    IF relation = NoRelation
      THEN [requires_swap |-> TRUE, days_since |-> 0]
      ELSE [requires_swap |-> ~can_swap_at(s, route.start_datetime, cfg.swap_period_days),
            days_since |-> days_since_last_swap(s, route)]

check_swap_policy(s, route, lookup, cfg) ==
    IF s.current_location_id = route.start_location_id
      THEN [requires_swap |-> FALSE, days_since |-> 999]
      ELSE swap_policy_verdict(s, route, cfg,
               get_relation(s.current_location_id, route.start_location_id, lookup, TRUE))

\* the third gate of is_feasible, for the verdict of check_swap_policy
swap_gate_rejects(verdict, cfg) ==
    verdict.requires_swap /\ verdict.days_since < cfg.swap_period_days

is_feasible(s, route, lookup, cfg, enforce_swap_policy) ==
    /\ is_time_feasible(s, route, lookup)
    /\ ~check_contract_limit(s, route)
    /\ enforce_swap_policy =>
           ~swap_gate_rejects(check_swap_policy(s, route, lookup, cfg), cfg)

\* costs.calculate_relocation_cost for the relation it looked up: (cost, dist, time)
relocation_cost_of(relation) ==
    IF relation = NoRelation
      THEN [cost |-> NoPathCost, dist |-> 0, time |-> 0]
      ELSE [cost |-> relocation_base_cost_pln
                     + (relation.dist * relocation_per_km_pln) \div KmScale
                     + (relation.time * relocation_per_hour_pln) \div (60 * 60),
            dist |-> relation.dist, time |-> relation.time]

costs_calculate_relocation_cost(from_loc, to_loc, lookup) ==
    IF from_loc = to_loc THEN [cost |-> 0, dist |-> 0, time |-> 0]
    ELSE relocation_cost_of(get_relation(from_loc, to_loc, lookup, TRUE))

calculate_overage_cost(km_driven_this_year, limit_km) ==
    IF km_driven_this_year <= limit_km THEN 0
    ELSE (km_driven_this_year - limit_km) * overage_per_km_pln

costs_calculate_assignment_cost(s, route, lookup, cfg) ==
    (IF s.current_location_id # route.start_location_id
       THEN costs_calculate_relocation_cost(s.current_location_id,
                                            route.start_location_id, lookup).cost
       ELSE 0)
    + calculate_overage_cost(s.km_driven_this_lease_year + IntKm(route.distance_km),
                             s.annual_limit_km)
    + (IF VehicleState_needs_service(s, cfg.service_tolerance_km)
         THEN service_penalty_pln ELSE 0)

\* variant: the relaxed pass attaches no penalty
feasible_pass_without_penalty(ids, states, route, lookup, cfg, enforce_swap_policy, penalty) ==
    LET admitted == SelectSeq(ids, LAMBDA id :
                        is_feasible(states[id], route, lookup, cfg, enforce_swap_policy))
    IN  [i \in DOMAIN admitted |->
            [vehicle_id |-> admitted[i],
             cost |-> costs_calculate_assignment_cost(states[admitted[i]], route,
                                                      lookup, cfg)]]

\* feasible_vehicles of one pass, in the order of vehicle_states.items()
feasible_pass(ids, states, route, lookup, cfg, enforce_swap_policy, penalty) ==
    LET admitted == SelectSeq(ids, LAMBDA id :
                        is_feasible(states[id], route, lookup, cfg, enforce_swap_policy))
    IN  [i \in DOMAIN admitted |->
            [vehicle_id |-> admitted[i],
             cost |-> costs_calculate_assignment_cost(states[admitted[i]], route,
                                                      lookup, cfg) + penalty]]

\* feasible_vehicles.sort(key=cost): a stable sort
RECURSIVE InsertByCost(_, _)
InsertByCost(sorted, c) ==
    IF sorted = << >> THEN <<c>>
    ELSE IF sorted[Len(sorted)].cost <= c.cost THEN Append(sorted, c)
    ELSE Append(InsertByCost(SubSeq(sorted, 1, Len(sorted) - 1), c), sorted[Len(sorted)])

RECURSIVE SortByCost(_)
SortByCost(cs) ==
    IF cs = << >> THEN << >>
    ELSE InsertByCost(SortByCost(SubSeq(cs, 1, Len(cs) - 1)), cs[Len(cs)])

\* the return value for the candidates of the strict pass and of the relaxed pass
cheapest_candidate(strict, relaxed) ==
    IF strict # << >> THEN SortByCost(strict)[1]
    ELSE IF relaxed # << >> THEN SortByCost(relaxed)[1]
    ELSE NoBest

\* with chain_depth = 0 or look_ahead_days = 0 (lines 207 to 211): (vehicle_id, cost)
find_best_vehicle_with_lookahead(route, ids, states, lookup, cfg) ==
    cheapest_candidate(
        feasible_pass(ids, states, route, lookup, cfg, TRUE, 0),
        feasible_pass(ids, states, route, lookup, cfg, FALSE, swap_violation_penalty))

\* the relocation part of update_vehicle_state, for the cost triple it computed
relocate(s, route, reloc) ==
    [s EXCEPT !.relocations_in_window =
                  Append(@, <<route.start_datetime, s.current_location_id,
                              route.start_location_id>>),
              !.total_relocations = @ + 1,
              !.total_relocation_cost = @ + reloc.cost,
              !.current_odometer_km = @ + IntKm(reloc.dist),
              !.km_driven_this_lease_year = @ + IntKm(reloc.dist),
              !.total_lifetime_km = @ + IntKm(reloc.dist),
              !.km_since_last_service = @ + IntKm(reloc.dist)]

\* the route part of update_vehicle_state
drive_route(s, route) ==
    [s EXCEPT !.current_location_id = route.end_location_id,
              !.current_odometer_km = @ + IntKm(route.distance_km),
              !.km_driven_this_lease_year = @ + IntKm(route.distance_km),
              !.total_lifetime_km = @ + IntKm(route.distance_km),
              !.km_since_last_service = @ + IntKm(route.distance_km),
              !.available_from = route.end_datetime,
              !.last_route_id = route.id,
              !.routes_completed = @ + 1,
              !.total_overage_cost =
                  calculate_overage_cost(
                      s.km_driven_this_lease_year + IntKm(route.distance_km),
                      s.annual_limit_km)]

update_vehicle_state(s, route, lookup) ==
    IF s.current_location_id # route.start_location_id
      THEN drive_route(relocate(s, route,
               costs_calculate_relocation_cost(s.current_location_id,
                                               route.start_location_id, lookup)),
               route)
      ELSE drive_route(s, route)

create_route_assignment(route, before, after, best, reloc, cfg) ==
    [route_id |-> route.id,
     vehicle_id |-> best.vehicle_id,
     date |-> route.start_datetime,
     route_start_location |-> route.start_location_id,
     route_end_location |-> route.end_location_id,
     vehicle_km_before |-> before.current_odometer_km,
     vehicle_km_after |-> after.current_odometer_km,
     annual_km_before |-> before.km_driven_this_lease_year,
     annual_km_after |-> after.km_driven_this_lease_year,
     requires_relocation |-> before.current_location_id # route.start_location_id,
     requires_service |-> check_service_need(after, route, cfg),
     cost |-> best.cost,
     relocation_distance |-> reloc.dist,
     relocation_time |-> reloc.time,
     overage_km |-> IF after.km_driven_this_lease_year > after.annual_limit_km
                      THEN after.km_driven_this_lease_year - after.annual_limit_km
                      ELSE 0,
     chain_score |-> 0]

\* the configurations of assign_routes: the chain building is switched off
AssignRoutesConfigs ==
    {[chain_depth |-> d[1], look_ahead_days |-> d[2], assignment_lookahead_days |-> 0,
      service_tolerance_km |-> service_tolerance_km,
      max_swaps_per_period |-> m, swap_period_days |-> swap_period_days] :
        d \in {<<0, 7>>, <<3, 0>>}, m \in {1, 2}}

InitAssignRoutes ==
    /\ vehicles \in {<<v1, v2>> : v1 \in Vehicle1Set, v2 \in Vehicle2Set}
    /\ routes \in RouteLists
    /\ config \in AssignRoutesConfigs
    /\ vehicle_states = initialize_vehicle_states(vehicles, routes[1].start_datetime)
    /\ relation_cache = << >>
    /\ vehicle_workloads = [id \in {vehicles[i].id : i \in DOMAIN vehicles} |-> 0]
    /\ assignments = << >>
    /\ unassigned = << >>
    /\ route_index = 0
    /\ pc = "run"
    /\ ServiceIdle

assign_routes_to_assign ==
    filter_routes_by_lookahead(routes, config.assignment_lookahead_days)

\* the pairs the two passes of one route ask the oracle for: is_time_feasible
\* looks the relation up unless the vehicle is busy or stands at the start
assign_routes_lookups(route) ==
    {<<vehicle_states[id].current_location_id, route.start_location_id>> :
        id \in {id \in DOMAIN vehicle_states :
                  /\ ~(vehicle_states[id].available_from > route.start_datetime)
                  /\ vehicle_states[id].current_location_id # route.start_location_id}}

\* the loop of assign_routes is at a route, and the chain building is switched off
InAssignRoutesLoop ==
    /\ pc = "run"
    /\ config.chain_depth = 0 \/ config.look_ahead_days = 0
    /\ route_index < Len(assign_routes_to_assign)

\* the body of the loop for the vehicle find_best_vehicle_with_lookahead returned
AssignRoutesStep(route, best) ==
    IF best.vehicle_id = None
      THEN /\ unassigned' = Append(unassigned, route.id)
           /\ UNCHANGED <<vehicle_states, assignments>>
      ELSE LET before == vehicle_states[best.vehicle_id]
               after == update_vehicle_state(before, route, relation_lookup)
           IN  /\ vehicle_states' = [vehicle_states EXCEPT ![best.vehicle_id] = after]
               /\ assignments' =
                      Append(assignments,
                             create_route_assignment(route, before, after, best,
                                 costs_calculate_relocation_cost(
                                     before.current_location_id,
                                     route.start_location_id, relation_lookup),
                                 config))
               /\ UNCHANGED unassigned

\* assign_routes, one route: a vehicle is found and updated
AssignRoutesAssign ==
    /\ InAssignRoutesLoop
    /\ AssignRoutesStep(assign_routes_to_assign[route_index + 1],
           find_best_vehicle_with_lookahead(assign_routes_to_assign[route_index + 1],
               vehicle_ids, vehicle_states, relation_lookup, config))
    /\ assignments' # assignments
    /\ route_index' = route_index + 1
    /\ path_cache' = path_cache_after(path_cache,
                          assign_routes_lookups(assign_routes_to_assign[route_index + 1]),
                          relation_lookup, TRUE)
    /\ UNCHANGED process_vars
    /\ UNCHANGED <<vehicles, routes, config, relation_cache, vehicle_workloads, pc>>

\* assign_routes, one route: no vehicle is found
AssignRoutesUnassigned ==
    /\ InAssignRoutesLoop
    /\ AssignRoutesStep(assign_routes_to_assign[route_index + 1],
           find_best_vehicle_with_lookahead(assign_routes_to_assign[route_index + 1],
               vehicle_ids, vehicle_states, relation_lookup, config))
    /\ unassigned' # unassigned
    /\ route_index' = route_index + 1
    /\ path_cache' = path_cache_after(path_cache,
                          assign_routes_lookups(assign_routes_to_assign[route_index + 1]),
                          relation_lookup, TRUE)
    /\ UNCHANGED process_vars
    /\ UNCHANGED <<vehicles, routes, config, relation_cache, vehicle_workloads, pc>>

\* assign_routes after the loop: the result is returned
AssignRoutesReturn ==
    /\ pc = "run"
    /\ route_index >= Len(assign_routes_to_assign)
    /\ pc' = "done"
    /\ UNCHANGED service_vars
    /\ UNCHANGED <<vehicles, routes, config, vehicle_states, relation_cache,
                   vehicle_workloads, assignments, unassigned, route_index>>

NextAssignRoutes ==
    \/ AssignRoutesAssign
    \/ AssignRoutesUnassigned
    \/ AssignRoutesReturn

SpecAssignRoutes == InitAssignRoutes /\ [][NextAssignRoutes]_vars

(***************************************************************************)
(* One Python process.  main.py calls run_optimization or run_quick_test   *)
(* on the CSV directory; the request handlers of endpoints.py are          *)
(* coroutines without an await, so the process executes one call at a      *)
(* time, to its end.  load_all_data reads CSV files only: Path(None)       *)
(* raises TypeError, so a call with data_dir = None ends at the load.      *)
(***************************************************************************)
\* calls one process serves
MaxCalls == 2

placement_lookahead_days == 14
significant_demand == 10

\* analyze_initial_demand: the routes before the end of the window (the file is sorted)
RECURSIVE initial_demand_routes(_, _)
initial_demand_routes(rs, end_date) ==
    IF rs = << >> \/ rs[1].start_datetime >= end_date THEN << >>
    ELSE <<rs[1]>> \o initial_demand_routes(Tail(rs), end_date)

\* the keys of demand_by_location, in the order of their insertion
RECURSIVE demand_locations(_)
demand_locations(rs) ==
    IF rs = << >> THEN << >>
    ELSE LET head == demand_locations(SubSeq(rs, 1, Len(rs) - 1))
             l == rs[Len(rs)].start_location_id
         IN  IF \E i \in DOMAIN head : head[i] = l THEN head ELSE Append(head, l)

local_demand(rs, l) == Cardinality({i \in DOMAIN rs : rs[i].start_location_id = l})

\* cost_based_clustering_placement asks the oracle for the way to every other
\* location with at least 10 routes
placement_lookups(rs) ==
    {<<a, b>> : a \in {rs[i].start_location_id : i \in DOMAIN rs},
                b \in {l \in {rs[i].start_location_id : i \in DOMAIN rs} :
                         local_demand(rs, l) >= significant_demand}}
        \ {<<l, l>> : l \in Locations}

\* sorted(location_scores, reverse=True), a stable sort: where no location has
\* 10 routes every score is local_demand / 11
RECURSIVE InsertByDemand(_, _, _)
InsertByDemand(sorted, l, rs) ==
    IF sorted = << >> THEN <<l>>
    ELSE IF local_demand(rs, sorted[Len(sorted)]) >= local_demand(rs, l)
      THEN Append(sorted, l)
    ELSE Append(InsertByDemand(SubSeq(sorted, 1, Len(sorted) - 1), l, rs),
                sorted[Len(sorted)])

RECURSIVE sorted_locs(_, _)
sorted_locs(locs, rs) ==
    IF locs = << >> THEN << >>
    ELSE InsertByDemand(sorted_locs(SubSeq(locs, 1, Len(locs) - 1), rs), locs[Len(locs)], rs)

max_per_location(vs) == IF (Len(vs) * 3) \div 10 > 5 THEN (Len(vs) * 3) \div 10 ELSE 5

\* vehicles_needed of one location, after the limits
vehicles_needed(vs, rs, l, vehicles_allocated) ==
    LET proportional == (Len(vs) * local_demand(rs, l)) \div Len(rs)
        capped == Min2(proportional, max_per_location(vs))
        limited == IF capped < 1 THEN 1 ELSE capped
    IN  Min2(limited, Len(vs) - vehicles_allocated)

\* the allocation loop over sorted_locs, from position i
RECURSIVE allocate(_, _, _, _, _, _)
allocate(locs, i, vehicles_allocated, placement, vs, rs) ==
    IF i > Len(locs) \/ vehicles_allocated >= Len(vs) THEN placement
    ELSE LET n == vehicles_needed(vs, rs, locs[i], vehicles_allocated)
         IN  allocate(locs, i + 1, vehicles_allocated + n,
                      [j \in (vehicles_allocated + 1)..(vehicles_allocated + n) |-> locs[i]]
                          @@ placement,
                      vs, rs)

\* position in the vehicle list -> location; the rest goes to the top location
cost_based_clustering_placement(vs, rs) ==
    IF rs = << >> THEN [j \in DOMAIN vs |-> 1]
    ELSE LET locs == sorted_locs(demand_locations(rs), rs)
         IN  allocate(locs, 1, 0, << >>, vs, rs) @@ [j \in DOMAIN vs |-> locs[1]]

apply_placement_to_vehicles(vs, placement) ==
    [j \in DOMAIN vs |-> [vs[j] EXCEPT !.current_location_id = placement[j]]]

calculate_cost_based_placement(vs, rs, cfg) ==
    cost_based_clustering_placement(vs,
        initial_demand_routes(rs, rs[1].start_datetime + cfg.placement_lookahead_days * Day))

\* the rows save_assignment and save_vehicle_state insert for one assignment
assignment_rows(a, states, run_id) ==
    {[table |-> "assignments", run_id |-> run_id, route_id |-> a.route_id],
     [table |-> "assignment_costs", run_id |-> run_id, route_id |-> a.route_id]}
    \cup (IF a.requires_relocation
            THEN {[table |-> "relocations", run_id |-> run_id, route_id |-> a.route_id]}
            ELSE {})
    \cup (IF a.vehicle_id \in DOMAIN states
            THEN {[table |-> "vehicle_states", run_id |-> run_id, route_id |-> a.route_id]}
            ELSE {})

\* variant: save_assignment commits its own rows
save_assignment_committing(db, rows) == [db EXCEPT !.committed = @ \cup rows]

\* the inserts of one assignment: the rows belong to the open transaction
save_assignment(db, rows) == [db EXCEPT !.pending = @ \cup rows]

conn_commit(db) == [db EXCEPT !.committed = @ \cup db.pending, !.pending = {}]

conn_rollback(db) == [db EXCEPT !.pending = {}]

\* start_algorithm_run: INSERT ... 'running' RETURNING id, and a commit
start_algorithm_run(db) ==
    conn_commit([db EXCEPT !.algorithm_runs = Append(@, "running")])

\* complete_algorithm_run: the status is 'failed' if error else 'completed'
complete_algorithm_run(db, run_id, failed) ==
    conn_commit([db EXCEPT !.algorithm_runs[run_id] =
                               IF failed THEN "failed" ELSE "completed"])

\* FleetDatabase.__exit__: commit or rollback, close the cursor, putconn.  When
\* the commit or the rollback raises, the method is left before putconn.
FleetDatabase_exit(handed_out, exit_raises) ==
    IF exit_raises THEN handed_out ELSE handed_out - 1

\* what a database operation inside `with FleetDatabase() as db' may do
DbOutcomes == {"ok", "raises", "connection_lost", "exit_raises"}

\* the body raised
BodyRaised(outcome) == outcome \in {"raises", "connection_lost"}

\* the commit or rollback of __exit__ raised
ExitRaised(outcome) == outcome \in {"connection_lost", "exit_raises"}

Idle == call.pc = "idle"

At(p) == call.pc = p

InitService ==
    /\ vehicles \in {<<v1, v2>> : v1 \in {v \in Vehicle1Set : /\ v.leasing_end_date = 5 * Year
                                                             /\ v.leasing_limit_km = 100000
                                                             /\ v.current_location_id = 1},
                                  v2 \in {v \in Vehicle2Set : v.current_location_id = 1}}
    /\ routes \in RouteLists
    /\ config \in {[placement_lookahead_days |-> placement_lookahead_days] @@ c :
                      c \in {c \in AssignRoutesConfigs :
                               c.chain_depth = 0 /\ c.max_swaps_per_period = 1}}
    /\ vehicle_states = initialize_vehicle_states(vehicles, routes[1].start_datetime)
    /\ relation_cache = << >>
    /\ vehicle_workloads = [id \in {vehicles[i].id : i \in DOMAIN vehicles} |-> 0]
    /\ assignments = << >>
    /\ unassigned = << >>
    /\ route_index = 0
    /\ pc = "idle"
    /\ ServiceIdle

\* main.py: run_quick_test or run_optimization on the directory "data";
\* USE_DATABASE = 1 sends the results to the database
MainCalls ==
    /\ Idle
    /\ call.seq < MaxCalls
    /\ \E entry \in {"run_optimization", "run_quick_test"}, use_database \in BOOLEAN :
           call' = [NoCall EXCEPT !.entry = entry, !.data_dir = "data",
                                  !.use_database = use_database, !.pc = "clear",
                                  !.seq = call.seq + 1]
    /\ UNCHANGED <<run_vars, library_vars, path_cache, database, pool, response>>

\* POST /algorithm/placement, /algorithm/assignment, /algorithm/run: the handler
\* is entered, results = {status: running, run_id: None, error: None}
PostAlgorithm ==
    /\ Idle
    /\ call.seq < MaxCalls
    /\ \E request \in {"placement", "assignment", "run"} :
           call' = [NoCall EXCEPT !.request = request, !.pc = "start_run",
                                  !.seq = call.seq + 1]
    /\ response' = NoResponse
    /\ UNCHANGED <<run_vars, library_vars, path_cache, database, pool>>

\* the handler: with FleetDatabase() as db: run_id = db.start_algorithm_run(...)
StartAlgorithmRun ==
    /\ At("start_run")
    /\ \E outcome \in DbOutcomes :
           /\ database' = IF BodyRaised(outcome) THEN database
                          ELSE start_algorithm_run(database)
           /\ pool' = FleetDatabase_exit(pool + 1, ExitRaised(outcome))
           /\ call' = [call EXCEPT
                          !.run_id = IF BodyRaised(outcome) THEN None
                                     ELSE Len(database.algorithm_runs) + 1,
                          !.pc = IF outcome # "ok" THEN "except"
                                 ELSE IF call.request = "run" THEN "clear" ELSE "load",
                          !.entry = IF outcome = "ok" /\ call.request = "run"
                                      THEN "run_optimization" ELSE "none"]
    /\ UNCHANGED <<run_vars, library_vars, path_cache, response>>

\* run_optimization and run_quick_test begin with clear_path_cache()
ClearPathCache ==
    /\ At("clear")
    /\ path_cache' = clear_path_cache
    /\ call' = [call EXCEPT !.pc = "load"]
    /\ UNCHANGED <<run_vars, library_vars, database, pool, response>>

\* load_all_data(data_dir): the CSV files are read, or Path(None) raises TypeError
LoadAllData ==
    /\ At("load")
    /\ call.data_dir = "data"
    /\ call' = [call EXCEPT !.pc = "placement"]
    /\ UNCHANGED <<run_vars, library_vars, path_cache, database, pool, response>>

\* load_all_data(data_dir=None) in a handler, or in run_optimization called by
\* the handler of /algorithm/run: the TypeError reaches `except Exception'
LoadAllDataRaises ==
    /\ At("load")
    /\ call.data_dir = "None"
    /\ call' = [call EXCEPT !.pc = "except", !.entry = "none"]
    /\ UNCHANGED <<run_vars, library_vars, path_cache, database, pool, response>>

\* calculate_cost_based_placement and apply_placement_to_vehicles; then
\* assign_routes initialises the vehicle states
Placement ==
    /\ At("placement")
    /\ vehicles' = apply_placement_to_vehicles(vehicles,
                       calculate_cost_based_placement(vehicles, routes, config))
    /\ path_cache' =
           path_cache_after(path_cache,
               placement_lookups(initial_demand_routes(routes,
                   routes[1].start_datetime + config.placement_lookahead_days * Day)),
               relation_lookup, TRUE)
    /\ vehicle_states' = initialize_vehicle_states(vehicles', routes[1].start_datetime)
    /\ assignments' = << >>
    /\ unassigned' = << >>
    /\ route_index' = 0
    /\ pc' = "run"
    /\ call' = [call EXCEPT !.pc = "assign"]
    /\ UNCHANGED library_vars
    /\ UNCHANGED <<routes, config, relation_cache, vehicle_workloads, database, pool,
                   response>>

\* output.save_all_results: the CSV files are written, or FleetDatabase() takes
\* a connection from the pool
SaveAllResultsBegins ==
    /\ At("assign")
    /\ pc = "done"
    /\ pc' = "idle"
    /\ IF call.use_database
         THEN /\ pool' = pool + 1
              /\ call' = [call EXCEPT !.pc = "save_start", !.saved = 0]
         ELSE /\ pool' = pool
              /\ call' = [call EXCEPT !.pc = "return"]
    /\ UNCHANGED library_vars
    /\ UNCHANGED <<vehicles, routes, config, vehicle_states, relation_cache,
                   vehicle_workloads, assignments, unassigned, route_index,
                   path_cache, database, response>>

\* run_id is None: db.start_algorithm_run()
SaveStartsRun ==
    /\ At("save_start")
    /\ \E raises \in BOOLEAN :
           IF raises
             THEN /\ call' = [call EXCEPT !.pc = "save_exit_exc"]
                  /\ database' = database
             ELSE /\ call' = [call EXCEPT !.pc = "save_rows",
                                          !.run_id = Len(database.algorithm_runs) + 1]
                  /\ database' = start_algorithm_run(database)
    /\ UNCHANGED <<run_vars, library_vars, path_cache, pool, response>>

\* FleetDatabase.save_all_results, one assignment of the loop: its inserts, or
\* an insert raises and `except' rolls the transaction back
SaveAssignment ==
    /\ At("save_rows")
    /\ call.saved < Len(assignments)
    /\ \E raises \in BOOLEAN :
           IF raises
             THEN /\ call' = [call EXCEPT !.pc = "save_exit_exc"]
                  /\ database' = conn_rollback(database)
             ELSE /\ call' = [call EXCEPT !.saved = @ + 1]
                  /\ database' = save_assignment(database,
                         assignment_rows(assignments[call.saved + 1], vehicle_states,
                                         call.run_id))
    /\ UNCHANGED <<run_vars, library_vars, path_cache, pool, response>>

\* FleetDatabase.save_all_results after the loop: self.conn.commit()
SaveCommits ==
    /\ At("save_rows")
    /\ call.saved = Len(assignments)
    /\ \E raises \in BOOLEAN :
           IF raises
             THEN /\ call' = [call EXCEPT !.pc = "save_exit_exc"]
                  /\ database' = conn_rollback(database)
             ELSE /\ call' = [call EXCEPT !.pc = "save_complete"]
                  /\ database' = conn_commit(database)
    /\ UNCHANGED <<run_vars, library_vars, path_cache, pool, response>>

\* db.complete_algorithm_run(run_id, ...)
SaveCompletesRun ==
    /\ At("save_complete")
    /\ \E raises \in BOOLEAN :
           IF raises
             THEN /\ call' = [call EXCEPT !.pc = "save_exit_exc"]
                  /\ database' = conn_rollback(database)
             ELSE /\ call' = [call EXCEPT !.pc = "save_exit"]
                  /\ database' = complete_algorithm_run(database, call.run_id, FALSE)
    /\ UNCHANGED <<run_vars, library_vars, path_cache, pool, response>>

\* the end of `with FleetDatabase() as db' in output.save_all_results
SaveExits ==
    /\ At("save_exit") \/ At("save_exit_exc")
    /\ \E exit_raises \in BOOLEAN :
           /\ pool' = FleetDatabase_exit(pool, exit_raises)
           /\ call' = [call EXCEPT !.pc = IF At("save_exit") /\ ~exit_raises
                                            THEN "return" ELSE "raise"]
           /\ database' = IF At("save_exit") /\ ~exit_raises THEN conn_commit(database)
                          ELSE conn_rollback(database)
    /\ UNCHANGED <<run_vars, library_vars, path_cache, response>>

\* run_optimization returns to main.py, or its exception reaches main.py
MainReturns ==
    /\ At("return") \/ At("raise")
    /\ call' = [NoCall EXCEPT !.seq = call.seq]
    /\ UNCHANGED <<run_vars, library_vars, path_cache, database, pool, response>>

\* except Exception: results['status'] = 'failed', and if results['run_id']:
\* with FleetDatabase() as db: db.complete_algorithm_run(run_id, error=str(e))
MarkRunFailed ==
    /\ At("except")
    /\ call.request # "none"
    /\ IF call.run_id = None
         THEN /\ call' = [call EXCEPT !.pc = "respond"]
              /\ UNCHANGED <<database, pool>>
         ELSE \E outcome \in DbOutcomes :
                  /\ database' = IF BodyRaised(outcome) THEN database
                                 ELSE complete_algorithm_run(database, call.run_id, TRUE)
                  /\ pool' = FleetDatabase_exit(pool + 1, ExitRaised(outcome))
                  /\ call' = [call EXCEPT !.pc = IF outcome = "ok" THEN "respond"
                                                 ELSE "unhandled"]
    /\ UNCHANGED <<run_vars, library_vars, path_cache, response>>

\* return JSONResponse(content=results): the status code is the default, 200
Respond ==
    /\ At("respond")
    /\ response' = [status_code |-> 200, status |-> "failed",
                    keys |-> {"status", "run_id", "error"}]
    /\ call' = [NoCall EXCEPT !.seq = call.seq]
    /\ UNCHANGED <<run_vars, library_vars, path_cache, database, pool>>

\* global_exception_handler: an exception left the handler
GlobalExceptionHandler ==
    /\ At("unhandled")
    /\ response' = [status_code |-> 500, status |-> "error",
                    keys |-> {"status", "message", "type"}]
    /\ call' = [NoCall EXCEPT !.seq = call.seq]
    /\ UNCHANGED <<run_vars, library_vars, path_cache, database, pool>>

NextService ==
    \/ MainCalls
    \/ PostAlgorithm
    \/ StartAlgorithmRun
    \/ ClearPathCache
    \/ LoadAllData
    \/ LoadAllDataRaises
    \/ Placement
    \/ AssignRoutesAssign
    \/ AssignRoutesUnassigned
    \/ AssignRoutesReturn
    \/ SaveAllResultsBegins
    \/ SaveStartsRun
    \/ SaveAssignment
    \/ SaveCommits
    \/ SaveCompletesRun
    \/ SaveExits
    \/ MainReturns
    \/ MarkRunFailed
    \/ Respond
    \/ GlobalExceptionHandler

SpecService == InitService /\ [][NextService]_vars

(***************************************************************************)
(* run_optimizer.py in database mode, and the life of an algorithm run.    *)
(***************************************************************************)
\* run_optimizer.py main with DATABASE_URL or USE_DATABASE = 1, once load_config
\* has returned the configuration: mode full, test or quick; the data directory
\* is None
RunOptimizerCalls ==
    /\ Idle
    /\ call.seq < MaxCalls
    /\ \E entry \in {"run_optimization", "run_quick_test"} :
           call' = [NoCall EXCEPT !.entry = entry, !.use_database = TRUE,
                                  !.pc = "cli_start_run", !.seq = call.seq + 1]
    /\ UNCHANGED <<run_vars, library_vars, path_cache, database, pool, response>>

\* main, before its try: with FleetDatabase() as db: run_id =
\* db.start_algorithm_run(...).  An exception here leaves main.
RunOptimizerStartsRun ==
    /\ At("cli_start_run")
    /\ \E outcome \in DbOutcomes :
           /\ database' = IF BodyRaised(outcome) THEN database
                          ELSE start_algorithm_run(database)
           /\ pool' = FleetDatabase_exit(pool + 1, ExitRaised(outcome))
           /\ call' = [call EXCEPT
                          !.run_id = IF outcome = "ok"
                                       THEN Len(database.algorithm_runs) + 1 ELSE None,
                          !.pc = IF outcome = "ok" THEN "clear" ELSE "raise"]
    /\ UNCHANGED <<run_vars, library_vars, path_cache, response>>

\* main: except Exception as e: the error and the traceback are printed, return 1
RunOptimizerExcept ==
    /\ At("except")
    /\ call.request = "none"
    /\ call' = [NoCall EXCEPT !.seq = call.seq]
    /\ UNCHANGED <<run_vars, library_vars, path_cache, database, pool, response>>

\* the entry points that record a run before they load the data: the three
\* handlers and main of run_optimizer.py in database mode.  load_all_data is
\* called with data_dir = None by each of them, so none of them goes on to the
\* placement, the assignment or save_all_results.
NextRunStatus ==
    \/ PostAlgorithm
    \/ StartAlgorithmRun
    \/ RunOptimizerCalls
    \/ RunOptimizerStartsRun
    \/ ClearPathCache
    \/ LoadAllDataRaises
    \/ MarkRunFailed
    \/ Respond
    \/ GlobalExceptionHandler
    \/ RunOptimizerExcept
    \/ MainReturns

\* a call that was entered runs on: the process is not stopped from outside
\* between two steps of a handler or of main
CallRunsOn == ~Idle /\ NextRunStatus

SpecRunStatus == InitService /\ [][NextRunStatus]_vars /\ WF_vars(CallRunsOn)

(***************************************************************************)
(* Properties.                                                             *)
(***************************************************************************)
RouteById(id) == CHOOSE r \in {routes[i] : i \in DOMAIN routes} : r.id = id

\* this step appends an assignment; the vehicle and the route it is about
Accepts == Len(assignments') = Len(assignments) + 1
AcceptedVehicle == assignments'[Len(assignments')].vehicle_id
AcceptedRoute == RouteById(assignments'[Len(assignments')].route_id)

ServiceDue(s) == s.km_since_last_service > s.service_interval_km + service_tolerance_km

EffectiveAvailability(s) ==
    s.available_from + (IF ServiceDue(s) THEN service_duration_hours * Hour ELSE 0)

OracleRelation(from, to) == get_relation(from, to, relation_lookup, config.use_pathfinding)

\* the travel time between two locations in the unit of the stored relations: the
\* time of the stored relation, or the summed edge times of the oracle's path
travel_minutes(from, to) ==
    IF <<from, to>> \in DOMAIN relation_lookup THEN relation_lookup[<<from, to>>].time
    ELSE IF <<to, from>> \in DOMAIN relation_lookup THEN relation_lookup[<<to, from>>].time
    ELSE Dijkstra({[total_time |-> 0, total_dist |-> 0, current |-> from,
                    path |-> <<from>>, hops |-> 0]}, {}, to, relation_lookup).time_hours

TimingGates(s, route) ==
    /\ EffectiveAvailability(s) <= route.start_datetime
    /\ s.current_location_id # route.start_location_id =>
         /\ OracleRelation(s.current_location_id, route.start_location_id) # NoRelation
         /\ EffectiveAvailability(s)
              + travel_minutes(s.current_location_id, route.start_location_id)
            <= route.start_datetime

NoOverlap ==
    \A i, j \in DOMAIN assignments :
        i < j /\ assignments[i].vehicle_id = assignments[j].vehicle_id =>
            RouteById(assignments[i].route_id).end_datetime
              <= RouteById(assignments[j].route_id).start_datetime

\* C1: every accepted assignment passes the timing gates (effective availability
\* <= route start; when a relocation is needed the oracle has a relation and
\* effective availability + travel minutes <= route start), and the routes of one
\* vehicle never overlap in time.
C1_TimingGates ==
    /\ [][Accepts => TimingGates(vehicle_states[AcceptedVehicle], AcceptedRoute)]_vars
    /\ []NoOverlap

\* C2: available_from of no vehicle ever decreases, services included.
C2_AvailabilityMonotone ==
    [][\A id \in DOMAIN vehicle_states :
          vehicle_states'[id].available_from >= vehicle_states[id].available_from]_vars

\* a vehicle was serviced before a route
C2_Witness ==
    \E id \in DOMAIN vehicle_states :
        /\ vehicle_states[id].total_service_count >= 1
        /\ vehicle_states[id].routes_assigned >= 2

VehicleById(id) == CHOOSE v \in {vehicles[i] : i \in DOMAIN vehicles} : v.id = id

RelocationKm(from, to) ==
    IF from = to \/ OracleRelation(from, to) = NoRelation THEN 0
    ELSE IntKm(OracleRelation(from, to).dist)

\* C4: a vehicle with a lifetime cap has total_lifetime_km <= total_contract_limit_km
\* after every accepted assignment, route and relocation kilometres included.
C4_LifetimeCap ==
    \A id \in DOMAIN vehicle_states :
        /\ vehicle_states[id].total_contract_limit_km # None
        /\ vehicle_states[id].routes_assigned > 0
        => vehicle_states[id].total_lifetime_km
             <= vehicle_states[id].total_contract_limit_km

\* a capped vehicle took a route after a relocation
C4_Witness ==
    \E id \in DOMAIN vehicle_states :
        /\ vehicle_states[id].total_contract_limit_km # None
        /\ vehicle_states[id].routes_assigned > 0
        /\ Len(vehicle_states[id].relocations) > 0
        /\ vehicle_states[id].total_lifetime_km > VehicleById(id).current_odometer_km

\* the times the runs know of: every route start and end, every relocation
Timestamps ==
    {routes[i].start_datetime : i \in DOMAIN routes}
    \cup {routes[i].end_datetime : i \in DOMAIN routes}
    \cup UNION {{vehicle_states[id].relocations[k][1] :
                    k \in DOMAIN vehicle_states[id].relocations} :
                id \in DOMAIN vehicle_states}

\* C5: for every vehicle and every timestamp t, at most max_swaps_per_period entries
\* of the relocation history have a timestamp >= t - swap_period_days.
C5_SwapBudget ==
    \A id \in DOMAIN vehicle_states : \A t \in Timestamps :
        Cardinality({k \in DOMAIN vehicle_states[id].relocations :
                        vehicle_states[id].relocations[k][1] >= t - swap_period_days * Day})
          <= max_swaps_per_period

\* a vehicle that used its swap went on to another route
C5_Witness ==
    \E id \in DOMAIN vehicle_states :
        /\ Len(vehicle_states[id].relocations) = max_swaps_per_period
        /\ vehicle_states[id].routes_assigned >= 2
        /\ vehicle_states[id].last_route_id
             # assignments[CHOOSE i \in DOMAIN assignments :
                               assignments[i].vehicle_id = id
                               /\ assignments[i].requires_relocation].route_id

NoVehicleFeasible(route) ==
    \A id \in DOMAIN vehicle_states :
        check_feasibility(vehicle_states[id], route, relation_lookup, config,
                          relation_cache) # "OK"

\* C6: when no vehicle is feasible for a route, the route id is appended to
\* unassigned, every vehicle state stays as it was, and the loop goes on to the
\* next route.
C6_UnassignedFrame ==
    [][(pc = "run" /\ route_index < Len(routes_to_assign)
          /\ NoVehicleFeasible(current_route))
       => /\ unassigned' = Append(unassigned, current_route.id)
          /\ vehicle_states' = vehicle_states
          /\ assignments' = assignments
          /\ route_index' = route_index + 1
          /\ pc' = "run"]_vars

\* a route was left unassigned and a later one was assigned
C6_Witness ==
    /\ config.assignment_strategy = "greedy"
    /\ \E i \in DOMAIN assignments : \E k \in DOMAIN unassigned :
           assignments[i].route_id > unassigned[k]

\* resets of a lease ending at lease_end that a date t calls for
ResetsNeeded(lease_end, t) ==
    IF t < lease_end THEN 0 ELSE (t - lease_end) \div Year + 1

LeaseResetAtStart(s, route) ==
    LET n == ResetsNeeded(s.lease_end_date, route.start_datetime)
        out == check_and_reset_annual_km(s, route.start_datetime)
    IN  /\ out.lease_end_date = s.lease_end_date + n * Year
        /\ out.lease_cycle_number = s.lease_cycle_number + n
        /\ route.start_datetime < out.lease_end_date
        /\ n = 0 => out = s
        /\ n > 0 => /\ out.km_driven_this_lease_year = 0
                    /\ out.lease_start_date = s.lease_end_date + (n - 1) * Year
                    /\ out.lease_start_date <= route.start_datetime

\* C7: the lease-year reset of update_state runs while route start >= lease_end_date;
\* every iteration zeroes km_driven_this_lease_year, moves lease_start_date to the old
\* lease_end_date, advances lease_end_date by 365 days and adds one to
\* lease_cycle_number; it cascades over several years, ends, and leaves
\* route start < lease_end_date.
C7_LeaseReset ==
    [][Accepts =>
         /\ LeaseResetAtStart(vehicle_states[AcceptedVehicle], AcceptedRoute)
         /\ AcceptedRoute.start_datetime
              < vehicle_states'[AcceptedVehicle].lease_end_date
         /\ vehicle_states'[AcceptedVehicle].lease_cycle_number
              >= vehicle_states[AcceptedVehicle].lease_cycle_number
                 + ResetsNeeded(vehicle_states[AcceptedVehicle].lease_end_date,
                                AcceptedRoute.start_datetime)]_vars

\* the first route of a vehicle whose lease ended more than a year before
C7_Witness ==
    \E id \in DOMAIN vehicle_states :
        /\ vehicle_states[id].routes_assigned = 1
        /\ VehicleById(id).leasing_end_date + Year
             <= RouteById(vehicle_states[id].last_route_id).start_datetime
        /\ vehicle_states[id].lease_cycle_number >= 3

StartsAtLeaseEnd(s, route) == route.start_datetime = s.lease_end_date

NextYearOnly(s, post, route) ==
    /\ post.lease_cycle_number > s.lease_cycle_number
    /\ post.km_driven_this_lease_year
         = RelocationKm(s.current_location_id, route.start_location_id)
           + IntKm(route.distance_km)

\* C8 as stated: a route that starts exactly at lease_end_date is accounted entirely
\* to the next lease year: the cycle has advanced and km_driven_this_lease_year is the
\* relocation distance plus the full route distance.
C8_StartAtLeaseEnd_AsStated ==
    [][Accepts /\ StartsAtLeaseEnd(vehicle_states[AcceptedVehicle], AcceptedRoute)
       => NextYearOnly(vehicle_states[AcceptedVehicle],
                       vehicle_states'[AcceptedVehicle], AcceptedRoute)]_vars

\* C8: a route that starts exactly at lease_end_date and ends no later than 365 days
\* after its start is accounted entirely to the next lease year: the cycle has
\* advanced and km_driven_this_lease_year is the relocation distance plus the full
\* route distance.
C8_StartAtLeaseEnd ==
    [][Accepts /\ StartsAtLeaseEnd(vehicle_states[AcceptedVehicle], AcceptedRoute)
         /\ AcceptedRoute.end_datetime <= AcceptedRoute.start_datetime + Year
       => NextYearOnly(vehicle_states[AcceptedVehicle],
                       vehicle_states'[AcceptedVehicle], AcceptedRoute)]_vars

\* a vehicle relocated to, and drove, a route that started at its lease end
C8_Witness ==
    \E id \in DOMAIN vehicle_states :
        /\ vehicle_states[id].routes_assigned = 1
        /\ Len(vehicle_states[id].relocations) = 1
        /\ VehicleById(id).leasing_end_date
             = RouteById(vehicle_states[id].last_route_id).start_datetime
        /\ vehicle_states[id].lease_cycle_number = 2

\* the state pro_rate_km_across_lease_years sees: after the reset at the route start
AtRouteStart(s, route) == check_and_reset_annual_km(s, route.start_datetime)

Straddles(s, route) ==
    /\ route.start_datetime < AtRouteStart(s, route).lease_end_date
    /\ AtRouteStart(s, route).lease_end_date < route.end_datetime

FloorShare(s, route) ==
    (IntKm(route.distance_km)
       * (AtRouteStart(s, route).lease_end_date - route.start_datetime))
    \div (route.end_datetime - route.start_datetime)

\* C9: for an accepted route with start < lease_end_date < end, the integer distance
\* is split into floor(km * seconds before the lease end / seconds of the route) for
\* the current year and the remainder for the next; the parts sum to the distance;
\* lease_cycle_number advances (by exactly one for a route shorter than 365 days);
\* and km_driven_this_lease_year afterwards is the next-year part only.
C9_ProRating ==
    [][Accepts /\ Straddles(vehicle_states[AcceptedVehicle], AcceptedRoute) =>
        LET s == vehicle_states[AcceptedVehicle]
            post == vehicle_states'[AcceptedVehicle]
            route == AcceptedRoute
            km == IntKm(route.distance_km)
            split == pro_rate_km_across_lease_years(AtRouteStart(s, route),
                         route.start_datetime, route.end_datetime, km)
        IN  /\ split[1] = FloorShare(s, route)
            /\ split[1] + split[2] = km
            /\ post.lease_cycle_number > AtRouteStart(s, route).lease_cycle_number
            /\ route.end_datetime - route.start_datetime < Year
                 => post.lease_cycle_number
                      = AtRouteStart(s, route).lease_cycle_number + 1
            /\ post.km_driven_this_lease_year = km - FloorShare(s, route)]_vars

ServiceBookkeeping(s, post, route) ==
    LET reloc_km == RelocationKm(s.current_location_id, route.start_location_id)
        km == IntKm(route.distance_km)
    IN  IF ServiceDue(s)
          THEN /\ calculate_service_time(s).service_start = s.available_from
               /\ calculate_service_time(s).service_end
                    = s.available_from + service_duration_hours * Hour
               /\ schedule_service(s).available_from = calculate_service_time(s).service_end
               /\ schedule_service(s).km_since_last_service = 0
               /\ post.km_since_last_service = reloc_km + km
               /\ post.total_service_count = s.total_service_count + 1
               /\ post.total_service_cost = s.total_service_cost + service_cost_pln
          ELSE /\ schedule_service(s) = s
               /\ post.km_since_last_service = s.km_since_last_service + reloc_km + km
               /\ post.total_service_count = s.total_service_count
               /\ post.total_service_cost = s.total_service_cost

\* the latest time the vehicle can leave its location and be at the route start
DepartureTime(s, route) ==
    IF s.current_location_id = route.start_location_id THEN route.start_datetime
    ELSE route.start_datetime
           - travel_minutes(s.current_location_id, route.start_location_id)

ServiceEndsBeforeDeparture(s, route) ==
    ServiceDue(s) =>
        s.available_from + service_duration_hours * Hour <= DepartureTime(s, route)

\* C10: update_state performs a service exactly when km_since_last_service >
\* service_interval_km + service_tolerance_km: it starts at available_from, lasts
\* service_duration_hours, ends no later than the time the vehicle must leave for the
\* route, zeroes km_since_last_service before the relocation and route kilometres are
\* added, adds one to total_service_count and service_cost_pln to total_service_cost,
\* and sets available_from to the service end; otherwise none of these change.
C10_Service ==
    [][Accepts =>
         /\ ServiceBookkeeping(vehicle_states[AcceptedVehicle],
                               vehicle_states'[AcceptedVehicle], AcceptedRoute)
         /\ ServiceEndsBeforeDeparture(vehicle_states[AcceptedVehicle],
                                       AcceptedRoute)]_vars

\* the service counters, and a service that ends before the vehicle leaves as the
\* oracle's relation times it
C10_Bookkeeping ==
    [][Accepts =>
         /\ ServiceBookkeeping(vehicle_states[AcceptedVehicle],
                               vehicle_states'[AcceptedVehicle], AcceptedRoute)
         /\ ServiceDue(vehicle_states[AcceptedVehicle])
              /\ vehicle_states[AcceptedVehicle].current_location_id
                   # AcceptedRoute.start_location_id
            => vehicle_states[AcceptedVehicle].available_from
                 + service_duration_hours * Hour
                 + OracleRelation(vehicle_states[AcceptedVehicle].current_location_id,
                                  AcceptedRoute.start_location_id).time
               <= AcceptedRoute.start_datetime]_vars

(***************************************************************************)
(* C11: update_state is atomic.  When a step of it fails part-way, the     *)
(* vehicle states, the workload counters and the assignment list are as if *)
(* the route had never been assigned.                                      *)
(***************************************************************************)
C11_Atomic ==
    [][pc' = "raised" =>
         /\ vehicle_states' = vehicle_states
         /\ vehicle_workloads' = vehicle_workloads
         /\ assignments' = assignments]_vars


(***************************************************************************)
(* C12: when several feasible vehicles have the same minimal effective     *)
(* cost for a route, the vehicle with the smallest vehicle id is selected, *)
(* whatever the order of the input vehicle list.                           *)
(***************************************************************************)
ScanCandidates ==
    IF config.assignment_strategy = "greedy"
      THEN greedy_candidates(current_route)
      ELSE lookahead_candidates(current_route)

CheapestFeasible ==
    {id \in DOMAIN vehicle_states :
        /\ ScanCandidates[id].feasible
        /\ \A o \in DOMAIN vehicle_states :
               ScanCandidates[o].feasible => ScanCandidates[id].cost <= ScanCandidates[o].cost}

C12_SmallestIdOnTie ==
    [][Accepts => \A id \in CheapestFeasible : AcceptedVehicle <= id]_vars


(***************************************************************************)
(* C13: given a route list sorted by start_time, both strategies decide    *)
(* the routes, and emit the assignments, in non-decreasing (start_time,    *)
(* start_location_id) order: of routes with the same start_time the one    *)
(* with the smaller start_location_id is decided first.                    *)
(***************************************************************************)
DecidedInKeyOrder ==
    \A i, j \in 1..route_index :
        i < j => RouteKeyLeq(routes_to_assign[i], routes_to_assign[j])

EmittedInKeyOrder ==
    \A i, j \in DOMAIN assignments :
        i < j => RouteKeyLeq(RouteById(assignments[i].route_id),
                             RouteById(assignments[j].route_id))

C13_ProcessingOrder == DecidedInKeyOrder /\ EmittedInKeyOrder


(***************************************************************************)
(* C14: at the end of a run the current_odometer_km of every vehicle is    *)
(* its starting odometer plus the sum, over the assignments given to it,   *)
(* of the route distance and the relocation distance of each assignment.   *)
(* ReplayKm walks the vehicle's assignments from its starting location and *)
(* sums each route and each relocation in multiples of `unit' tenths of a  *)
(* kilometre.                                                              *)
(***************************************************************************)
AssignmentsOf(id) == SelectSeq(assignments, LAMBDA a : a.vehicle_id = id)

RECURSIVE ReplayKm(_, _, _, _)
ReplayKm(as, i, location, unit) ==
    IF i > Len(as) THEN 0
    ELSE LET route == RouteById(as[i].route_id)
         IN  (IF location # route.start_location_id
                THEN OracleRelation(location, route.start_location_id).dist \div unit
                ELSE 0)
             + route.distance_km \div unit
             + ReplayKm(as, i + 1, route.end_location_id, unit)

\* as stated: the distances as they are, in tenths of a kilometre
C14_OdometerReplay_AsStated ==
    pc = "done" =>
        \A id \in DOMAIN vehicle_states :
            (vehicle_states[id].current_odometer_km
                 - VehicleById(id).current_odometer_km) * KmScale
              = ReplayKm(AssignmentsOf(id), 1, VehicleById(id).current_location_id, 1)

\* each route distance and each relocation distance cut to whole kilometres
C14_OdometerReplay ==
    pc = "done" =>
        \A id \in DOMAIN vehicle_states :
            vehicle_states[id].current_odometer_km
              = VehicleById(id).current_odometer_km
                + ReplayKm(AssignmentsOf(id), 1, VehicleById(id).current_location_id,
                           KmScale)

\* a finished run in which a vehicle drove two routes, one after a relocation of
\* 50.5 km, one of 45.7 km
C14_Witness ==
    /\ pc = "done"
    /\ \E id \in DOMAIN vehicle_states :
          /\ Len(AssignmentsOf(id)) >= 2
          /\ \E i \in DOMAIN AssignmentsOf(id) : AssignmentsOf(id)[i].requires_relocation
          /\ \E i \in DOMAIN AssignmentsOf(id) :
                RouteById(AssignmentsOf(id)[i].route_id).distance_km = 457


(***************************************************************************)
(* C15: after any sequence of accepted assignments the tracked             *)
(* km_driven_this_lease_year of a vehicle equals, up to pro-ration         *)
(* rounding, the replay from scratch of the distances of its assigned      *)
(* routes that fall within the lease window [lease_start_date,             *)
(* lease_end_date).                                                        *)
(*                                                                         *)
(* ReplayLeaseKm sums, over the assignments `as' of one vehicle that       *)
(* started at `location', the whole kilometres that fall at or after       *)
(* `from': a route that begins before `from' and ends after it counts with *)
(* the share of its duration after `from' (the exact floor goes to the     *)
(* year before); the relocation to a route counts, if asked for, at the    *)
(* start of the route.                                                     *)
(***************************************************************************)
RouteKmFrom(route, from) ==
    IF route.end_datetime <= from THEN 0
    ELSE IF route.start_datetime >= from THEN IntKm(route.distance_km)
    ELSE IntKm(route.distance_km)
           - (IntKm(route.distance_km) * (from - route.start_datetime))
               \div (route.end_datetime - route.start_datetime)

RECURSIVE ReplayLeaseKm(_, _, _, _, _)
ReplayLeaseKm(as, i, location, from, with_relocations) ==
    IF i > Len(as) THEN 0
    ELSE LET route == RouteById(as[i].route_id)
         IN  (IF /\ with_relocations
                 /\ location # route.start_location_id
                 /\ route.start_datetime >= from
                THEN IntKm(OracleRelation(location, route.start_location_id).dist)
                ELSE 0)
             + RouteKmFrom(route, from)
             + ReplayLeaseKm(as, i + 1, route.end_location_id, from, with_relocations)

\* as stated: the routes only, within [lease_start_date, lease_end_date)
C15_LeaseYearReplay_AsStated ==
    \A id \in DOMAIN vehicle_states :
        LET s == vehicle_states[id]
            replay == ReplayLeaseKm(AssignmentsOf(id), 1,
                                    VehicleById(id).current_location_id,
                                    s.lease_start_date, FALSE)
        IN  /\ s.km_driven_this_lease_year - replay <= 1
            /\ replay - s.km_driven_this_lease_year <= 1

\* the window opens at lease_start_date once the lease year has rolled over, and
\* at the start of the run before that
WindowStart(s) ==
    IF s.lease_cycle_number > 1 THEN s.lease_start_date ELSE routes[1].start_datetime

RoutesWithinAYear(id) ==
    \A i \in DOMAIN AssignmentsOf(id) :
        LET route == RouteById(AssignmentsOf(id)[i].route_id)
        IN  route.end_datetime - route.start_datetime <= Year

\* the routes and the relocations, since the last roll-over of the lease year; the
\* tracked value is the replay, or one kilometre more
C15_LeaseYearReplay ==
    \A id \in DOMAIN vehicle_states :
        RoutesWithinAYear(id) =>
            LET s == vehicle_states[id]
                replay == ReplayLeaseKm(AssignmentsOf(id), 1,
                                        VehicleById(id).current_location_id,
                                        WindowStart(s), TRUE)
            IN  /\ replay <= s.km_driven_this_lease_year
                /\ s.km_driven_this_lease_year <= replay + 1

\* a vehicle whose lease year rolled over inside a route, after a route with a
\* relocation
C15_Witness ==
    \E id \in DOMAIN vehicle_states :
        /\ RoutesWithinAYear(id)
        /\ vehicle_states[id].lease_cycle_number > 1
        /\ vehicle_states[id].km_driven_this_lease_year > 0
        /\ \E i \in DOMAIN AssignmentsOf(id) : AssignmentsOf(id)[i].requires_relocation
        /\ \E i \in DOMAIN AssignmentsOf(id) :
              LET route == RouteById(AssignmentsOf(id)[i].route_id)
              IN  /\ route.start_datetime < vehicle_states[id].lease_start_date
                  /\ route.end_datetime > vehicle_states[id].lease_start_date

(***************************************************************************)
(* assign_routes: the strict and the relaxed pass.                         *)
(***************************************************************************)
\* the vehicles that pass the hard gates for the route the loop is at
PassesGates(enforce_swap_policy) ==
    {id \in DOMAIN vehicle_states :
        is_feasible(vehicle_states[id], assign_routes_to_assign[route_index + 1],
                    relation_lookup, config, enforce_swap_policy)}

\* the cost of the vehicle without any penalty, for the route the loop is at
UnpenalisedCost(id) ==
    costs_calculate_assignment_cost(vehicle_states[id],
        assign_routes_to_assign[route_index + 1], relation_lookup, config)

\* the record appended by this step names a vehicle of the set at this cost offset
AdmittedFrom(set, penalty) ==
    LET a == assignments'[Len(assignments')]
    IN  /\ a.vehicle_id \in set
        /\ a.cost = UnpenalisedCost(a.vehicle_id) + penalty

\* C16: in assign_routes a vehicle is taken from the relaxed pass only when the
\* strict pass admits none; a vehicle taken from the relaxed pass carries the fixed
\* swap-violation penalty in its cost, one taken from the strict pass does not; and a
\* route is recorded as unassigned only if no vehicle passes the time and contract
\* gates with the swap gate dropped.
C16_RelaxedPass ==
    [][/\ (Len(assignments') > Len(assignments) /\ PassesGates(TRUE) # {})
            => AdmittedFrom(PassesGates(TRUE), 0)
       /\ (Len(assignments') > Len(assignments) /\ PassesGates(TRUE) = {})
            => AdmittedFrom(PassesGates(FALSE), swap_violation_penalty)
       /\ Len(unassigned') > Len(unassigned) => PassesGates(FALSE) = {}]_vars

\* a route went to a vehicle the swap gate had rejected, at the penalised cost, after
\* that vehicle was relocated earlier in the run
C16_Witness ==
    \E i \in DOMAIN assignments :
        /\ assignments[i].cost >= swap_violation_penalty
        /\ assignments[i].requires_relocation
        /\ Len(vehicle_states[assignments[i].vehicle_id].relocations_in_window) >= 2

(***************************************************************************)
(* assign_routes: the swap gate of the strict pass.                        *)
(***************************************************************************)
\* the recorded relocations of the vehicle within swap_period_days before the start
RecentRelocations(s, route) ==
    Cardinality({i \in DOMAIN s.relocations_in_window :
                    /\ s.relocations_in_window[i][1]
                           >= route.start_datetime - config.swap_period_days * Day
                    /\ s.relocations_in_window[i][1] <= route.start_datetime})

\* the vehicle needs a relocation for the route and passes the time and contract gates
SwapGateDecides(s, route) ==
    /\ s.current_location_id # route.start_location_id
    /\ is_feasible(s, route, relation_lookup, config, FALSE)

\* C17: in the strict pass of assign_routes a vehicle that needs a relocation (and is
\* in time and within its contract) is rejected by the swap gate if and only if the
\* number of its recorded relocations within swap_period_days before the route start
\* is at least max_swaps_per_period.
C17_SwapGate ==
    (pc = "run" /\ route_index < Len(assign_routes_to_assign)) =>
        \A id \in DOMAIN vehicle_states :
            LET s == vehicle_states[id]
                route == assign_routes_to_assign[route_index + 1]
            IN  SwapGateDecides(s, route) =>
                    (~is_feasible(s, route, relation_lookup, config, TRUE)
                        <=> RecentRelocations(s, route) >= config.max_swaps_per_period)

(***************************************************************************)
(* optimize_assignment: a relation of distance 0 and time 0.               *)
(***************************************************************************)
\* the vehicle stands elsewhere, and the relation to the start has distance 0, time 0
ZeroWeightAway(s, route) ==
    /\ s.current_location_id # route.start_location_id
    /\ OracleRelation(s.current_location_id, route.start_location_id) # NoRelation
    /\ OracleRelation(s.current_location_id, route.start_location_id).dist = 0
    /\ OracleRelation(s.current_location_id, route.start_location_id).time = 0

\* the same vehicle standing at the start location of the route
AtStartOf(s, route) == [s EXCEPT !.current_location_id = route.start_location_id]

\* feasibility verdict and cost are those of the vehicle standing at the start
SameVerdictAndCost(s, t, route) ==
    /\ check_feasibility(s, route, relation_lookup, config, relation_cache)
         = check_feasibility(t, route, relation_lookup, config, relation_cache)
    /\ immediate_cost(s, route, relation_lookup, config, relation_cache)
         = immediate_cost(t, route, relation_lookup, config, relation_cache)

\* C18: a vehicle whose relation to the start location of the route has distance 0
\* and travel time 0 is treated as standing at the start location: its feasibility
\* verdict (swap gate included) and its cost are those of the same vehicle at the
\* start location, and when it is given the route no entry is added to its
\* relocation history.
C18_ZeroWeightIdentity ==
    [][(pc = "run" /\ route_index < Len(routes_to_assign)) =>
          \A id \in DOMAIN vehicle_states :
              ZeroWeightAway(vehicle_states[id], current_route) =>
                  /\ SameVerdictAndCost(vehicle_states[id],
                         AtStartOf(vehicle_states[id], current_route), current_route)
                  /\ (Accepts /\ AcceptedVehicle = id) =>
                         vehicle_states'[id].relocations
                           = update_state(AtStartOf(vehicle_states[id], current_route),
                                 current_route, relation_lookup, config,
                                 relation_cache).relocations]_vars

(***************************************************************************)
(* The distance oracle: get_relation and get_cached_relation.              *)
(***************************************************************************)
\* what the two lookups of the run answer for a pair of locations
OracleAnswers(from, to) ==
    {get_relation(from, to, relation_lookup, config.use_pathfinding),
     get_cached_relation(from, to, relation_lookup, config, relation_cache)}

Stored(from, to) == <<from, to>> \in DOMAIN relation_lookup

\* a relation with this distance and this travel time
Weighs(r, dist, time) == r # NoRelation /\ r.dist = dist /\ r.time = time

\* C19: get_relation and get_cached_relation answer a zero-weight sentinel for
\* from = to; the stored relation of (from, to) when there is one, otherwise distance
\* and travel time of the stored relation of (to, from); and none when neither
\* direction is stored and pathfinding is disabled.
C19_OracleLookup ==
    \A from \in Locations, to \in Locations :
        \A r \in OracleAnswers(from, to) :
            /\ from = to => Weighs(r, 0, 0)
            /\ (from # to /\ Stored(from, to)) => r = relation_lookup[<<from, to>>]
            /\ (from # to /\ ~Stored(from, to) /\ Stored(to, from))
                  => Weighs(r, relation_lookup[<<to, from>>].dist,
                            relation_lookup[<<to, from>>].time)
            /\ (from # to /\ ~Stored(from, to) /\ ~Stored(to, from)
                          /\ ~config.use_pathfinding) => r = NoRelation

(***************************************************************************)
(* The synthetic relation of a multi-hop path.                             *)
(***************************************************************************)
\* the stored relation of an edge, in either direction
EdgeOf(a, b) ==
    IF Stored(a, b) THEN relation_lookup[<<a, b>>] ELSE relation_lookup[<<b, a>>]

\* the sums of the stored distances and travel times along a path of locations
RECURSIVE PathDist(_)
PathDist(path) ==
    IF Len(path) < 2 THEN 0
    ELSE EdgeOf(path[1], path[2]).dist + PathDist(Tail(path))

RECURSIVE PathTime(_)
PathTime(path) ==
    IF Len(path) < 2 THEN 0
    ELSE EdgeOf(path[1], path[2]).time + PathTime(Tail(path))

\* no relation is stored between the two, and a path of stored relations was found
MultiHop(from, to) ==
    /\ from # to /\ ~Stored(from, to) /\ ~Stored(to, from)
    /\ config.use_pathfinding
    /\ find_shortest_path(from, to, relation_lookup).exists

\* C20: the synthetic relation get_relation returns for a multi-hop path has the sum
\* of the edge distances as its distance and, in the unit of the stored relations
\* (minutes), the sum of the edge travel times as its travel time.
C20_SyntheticRelation ==
    \A from \in Locations, to \in Locations :
        MultiHop(from, to) =>
            /\ OracleRelation(from, to).dist
                 = PathDist(find_shortest_path(from, to, relation_lookup).path)
            /\ OracleRelation(from, to).time
                 = PathTime(find_shortest_path(from, to, relation_lookup).path)

SavedRows(run_id) ==
    UNION {assignment_rows(assignments[i], vehicle_states, run_id) : i \in DOMAIN assignments}

RowsOfRun(run_id) == {row \in database.committed : row.run_id = run_id}

(***************************************************************************)
(* C22: persisting the results of a run is all-or-nothing.  A step either  *)
(* leaves the committed rows as they are or adds, at once, every           *)
(* assignment, cost, relocation and vehicle-state row of the run; an       *)
(* insert that fails leaves none of the rows written before it, and no row *)
(* of an open transaction outlives the call.                               *)
(***************************************************************************)
C22_AllOrNothing ==
    [][/\ database'.committed # database.committed =>
              /\ database'.committed = database.committed \cup SavedRows(call.run_id)
              /\ database.pending = SavedRows(call.run_id)
       /\ call'.pc = "save_exit_exc" => database'.pending = {}
       /\ call'.pc = "idle" => database'.pending = {}]_vars

\* the first call lost its transaction and persisted nothing, the second one
\* committed two assignments with a relocation and the vehicle states
C22_Witness ==
    /\ Idle
    /\ database.algorithm_runs = <<"running", "completed">>
    /\ RowsOfRun(1) = {}
    /\ RowsOfRun(2) = SavedRows(2)
    /\ Len(assignments) >= 2
    /\ \E row \in RowsOfRun(2) : row.table = "relocations"
    /\ \E row \in RowsOfRun(2) : row.table = "vehicle_states"

(***************************************************************************)
(* C23: every connection FleetDatabase takes from the pool is given back   *)
(* on every exit path - normal exit, an exception in the body, a failing   *)
(* commit or rollback on exit: once the call is over, no connection is     *)
(* handed out.                                                             *)
(***************************************************************************)
C23_ConnectionsReturned == Idle => pool = 0

(***************************************************************************)
(* C24: a run started through POST /algorithm/placement, /assignment or    *)
(* /run that fails is answered with a status code of 500 or more and a     *)
(* body with message and type.                                             *)
(***************************************************************************)
C24_FailedRunStatus ==
    response.status \in {"failed", "error"} =>
        /\ response.status_code >= 500
        /\ {"message", "type"} \subseteq response.keys

\* the ids of the routes the run has decided so far
DecidedIds ==
    {assignments[i].route_id : i \in DOMAIN assignments}
        \cup {unassigned[i] : i \in DOMAIN unassigned}

\* the route starts before first_route.start_time + N days, or there is no window
InAssignmentWindow(route) ==
    \/ config.assignment_lookahead_days <= 0
    \/ route.start_datetime
           < routes[1].start_datetime + config.assignment_lookahead_days * Day

WindowIds == {routes[i].id : i \in {i \in DOMAIN routes : InAssignmentWindow(routes[i])}}

(***************************************************************************)
(* C25: with assignment_lookahead_days = N > 0 the run decides exactly the *)
(* routes that start before first_route.start_time + N days: no other      *)
(* route is ever in the assignment list or the unassigned list, a vehicle  *)
(* state changes only for an assigned route of the window, and at the end  *)
(* every route of the window is decided; with N <= 0 every route is.       *)
(***************************************************************************)
C25_AssignmentWindow ==
    [][/\ DecidedIds' \subseteq WindowIds
       /\ vehicle_states' # vehicle_states =>
              /\ Accepts
              /\ InAssignmentWindow(AcceptedRoute)
       /\ pc' = "done" => DecidedIds' = WindowIds]_vars

\* a finished run with a window of one day: a route that starts exactly one
\* day after the first was left out, the routes before it were decided
C25_Witness ==
    /\ pc = "done"
    /\ config.assignment_lookahead_days = 1
    /\ \E i \in DOMAIN routes :
           /\ routes[i].start_datetime = routes[1].start_datetime + Day
           /\ routes[i].id \notin DecidedIds
    /\ Len(assignments) >= 2

(***************************************************************************)
(* check_feasibility and the two soft counters of a vehicle state.         *)
(***************************************************************************)
\* the same state with another count of kilometres in the lease year
WithAnnualKm(s, km) == [s EXCEPT !.km_driven_this_lease_year = km]

\* the same state with another count of kilometres since the last service
WithServiceKm(s, km) == [s EXCEPT !.km_since_last_service = km]

\* the counts compared: none, the last one with no service due, the first with one due
ServiceKmValues(s) ==
    {0, s.service_interval_km + service_tolerance_km,
     s.service_interval_km + service_tolerance_km + 1}

AnnualKmValues(s) == {0, s.annual_limit_km, s.annual_limit_km + 1000}

Verdict(s, route) == check_feasibility(s, route, relation_lookup, config, relation_cache)

\* C26 as stated: a vehicle is never rejected because of annual overage or because
\* a service is due; states that differ only in km_driven_this_lease_year or only
\* in km_since_last_service get the same verdict of check_feasibility for the route.
C26_SoftCounters_AsStated ==
    InLoop(config.assignment_strategy) =>
        \A id \in DOMAIN vehicle_states :
            LET s == vehicle_states[id]
            IN  /\ \A km \in AnnualKmValues(s) :
                       Verdict(WithAnnualKm(s, km), current_route) = Verdict(s, current_route)
                /\ \A km \in ServiceKmValues(s) :
                       Verdict(WithServiceKm(s, km), current_route) = Verdict(s, current_route)

\* C26: the verdict of check_feasibility does not depend on km_driven_this_lease_year;
\* it depends on km_since_last_service only through the service that is due: states on
\* the same side of service_interval_km + service_tolerance_km get the same verdict,
\* and a vehicle with a service due gets the verdict of the same vehicle with no
\* service due that becomes available service_duration_hours later.
C26_SoftCounters ==
    InLoop(config.assignment_strategy) =>
        \A id \in DOMAIN vehicle_states :
            LET s == vehicle_states[id]
            IN  /\ \A km \in AnnualKmValues(s) :
                       Verdict(WithAnnualKm(s, km), current_route) = Verdict(s, current_route)
                /\ \A km \in ServiceKmValues(s) :
                       /\ needs_service(WithServiceKm(s, km)) = needs_service(s) =>
                              Verdict(WithServiceKm(s, km), current_route)
                                  = Verdict(s, current_route)
                       /\ needs_service(WithServiceKm(s, km)) =>
                              Verdict(WithServiceKm(s, km), current_route)
                                  = Verdict([WithServiceKm(s, 0) EXCEPT !.available_from =
                                                 @ + service_duration_hours * Hour],
                                            current_route)

\* a vehicle with a service due is turned down for a route it would be given the
\* verdict OK for without the service: the service ends after the route starts
C26_Witness ==
    /\ InLoop(config.assignment_strategy)
    /\ \E id \in DOMAIN vehicle_states :
           /\ needs_service(vehicle_states[id])
           /\ Verdict(vehicle_states[id], current_route)
                  = "Not available yet (including potential service time)"
           /\ Verdict(WithServiceKm(vehicle_states[id], 0), current_route) = "OK"

(***************************************************************************)
(* check_feasibility: the swap gate and the age of the recorded            *)
(* relocations.                                                            *)
(***************************************************************************)
\* the recorded relocations of the state that fall in the swap period before t
RelocationsWithinPeriod(s, t) ==
    SelectSeq(s.relocations, LAMBDA r : r[1] >= t - swap_period_days * Day)

\* C27: a vehicle whose recorded relocations are all older than swap_period_days
\* before the start of the route is not rejected by check_feasibility for exceeding
\* the swap limit; only the relocations within the period count.
C27_SwapWindowAtRead ==
    InLoop(config.assignment_strategy) =>
        \A id \in DOMAIN vehicle_states :
            (/\ vehicle_states[id].relocations # << >>
             /\ RelocationsWithinPeriod(vehicle_states[id],
                                        current_route.start_datetime) = << >>)
                => Verdict(vehicle_states[id], current_route) # "Swap limit exceeded"

(***************************************************************************)
(* optimize_assignment: routes that fail validate_route.                   *)
(***************************************************************************)
\* the routes of the input that fail the sanity gate
InvalidIds == {routes[i].id : i \in {i \in DOMAIN routes : ~validate_route(routes[i])}}

AssignedIds == {assignments[i].route_id : i \in DOMAIN assignments}

UnassignedIds == {unassigned[i] : i \in DOMAIN unassigned}

\* the step that decides a route failing validate_route: every vehicle gets the
\* verdict of the sanity gate, no state changes, the route goes to the unassigned list
SanityGateStep ==
    (InLoop(config.assignment_strategy) /\ ~validate_route(current_route)) =>
        /\ \A id \in DOMAIN vehicle_states :
               Verdict(vehicle_states[id], current_route) = "Invalid route data"
        /\ vehicle_states' = vehicle_states
        /\ assignments' = assignments
        /\ unassigned' = Append(unassigned, current_route.id)

\* C28: a route without start location, without end location, with distance_km <= 0
\* or with end_time <= start_time is never assigned: it fails the sanity gate for
\* every vehicle, changes no vehicle state, and is recorded as unassigned, so that
\* when optimize_assignment is left every such route is in the unassigned list.
C28_InvalidRoutes ==
    [][/\ SanityGateStep
       /\ AssignedIds' \cap InvalidIds = {}
       /\ pc' # "run" => InvalidIds \subseteq UnassignedIds']_vars

\* the part of C28 about the routes the loop gets to
C28_SanityGate == [][SanityGateStep /\ AssignedIds' \cap InvalidIds = {}]_vars

(***************************************************************************)
(* optimize_assignment_greedy: the vehicle the scan of a route keeps.      *)
(***************************************************************************)
GreedyFeasible ==
    {id \in DOMAIN vehicle_states : greedy_candidates(current_route)[id].feasible}

\* the two states differ in nothing but the vehicle id and the location, and the
\* two vehicles were given the same number of routes
OtherwiseIdentical(a, b) ==
    /\ [vehicle_states[a] EXCEPT !.vehicle_id = 0, !.current_location_id = 0]
           = [vehicle_states[b] EXCEPT !.vehicle_id = 0, !.current_location_id = 0]
    /\ vehicle_workloads[a] = vehicle_workloads[b]

AtStart(id) == vehicle_states[id].current_location_id = current_route.start_location_id

\* C29: in optimize_assignment_greedy, whenever some vehicle is feasible for the
\* route, the route is assigned, to a feasible vehicle whose cost is the minimum of
\* the costs of the feasible vehicles; a feasible vehicle standing at the start of
\* the route is chosen over an otherwise identical one that would have to relocate.
C29_GreedyCheapest ==
    [][(InLoop("greedy") /\ GreedyFeasible # {}) =>
           /\ Accepts
           /\ assignments'[Len(assignments')].route_id = current_route.id
           /\ AcceptedVehicle \in GreedyFeasible
           /\ \A o \in GreedyFeasible :
                  greedy_candidates(current_route)[AcceptedVehicle].cost
                      <= greedy_candidates(current_route)[o].cost
           /\ \A a, b \in GreedyFeasible :
                  (AtStart(a) /\ ~AtStart(b) /\ OtherwiseIdentical(a, b))
                      => AcceptedVehicle # b]_vars

\* a route was just given to the second vehicle of the list, which stands at the
\* start, while the first, its twin, was feasible too and would have had to relocate
C29_Witness ==
    /\ config.assignment_strategy = "greedy"
    /\ Len(assignments) = 1
    /\ route_index = 1
    /\ assignments[1].vehicle_id = vehicles[2].id
    /\ ~assignments[1].requires_relocation
    /\ LET first == initialize_states(vehicles, routes[1].start_datetime)[vehicles[1].id]
       IN  /\ first.current_location_id # routes[1].start_location_id
           /\ check_feasibility(first, routes[1], relation_lookup, config, << >>) = "OK"

(***************************************************************************)
(* assign_routes: the lifetime cap of the contract.                        *)
(***************************************************************************)
\* C30: in assign_routes a vehicle with a lifetime cap is accepted for a route only
\* if total_lifetime_km + route distance + relocation distance is within
\* total_contract_limit_km: after an accepted assignment, with or without a
\* relocation, total_lifetime_km does not exceed the cap.
C30_LifetimeCapWithRelocation ==
    [][Accepts =>
           (vehicle_states[AcceptedVehicle].total_contract_limit_km # None =>
                vehicle_states'[AcceptedVehicle].total_lifetime_km
                    <= vehicle_states[AcceptedVehicle].total_contract_limit_km)]_vars

\* the same without the relocation: a vehicle standing at the start of the route
C30_LifetimeCapAtStart ==
    [][(Accepts /\ vehicle_states[AcceptedVehicle].current_location_id
                      = AcceptedRoute.start_location_id) =>
           (vehicle_states[AcceptedVehicle].total_contract_limit_km # None =>
                vehicle_states'[AcceptedVehicle].total_lifetime_km
                    <= vehicle_states[AcceptedVehicle].total_contract_limit_km)]_vars

(***************************************************************************)
(* assign_routes: the lease year of the vehicle that is given a route.     *)
(***************************************************************************)
\* C31: in assign_routes, when a vehicle is given a route that starts at or after
\* its lease_end_date, the lease year is rolled over before the kilometres of the
\* route are added: lease_end_date moves past the route start, lease_start_date and
\* lease_cycle_number advance, and km_driven_this_lease_year holds no kilometre
\* driven before the roll-over.
C31_LeaseResetInAssignRoutes ==
    [][(Accepts /\ AcceptedRoute.start_datetime
                       >= vehicle_states[AcceptedVehicle].lease_end_date) =>
           /\ vehicle_states'[AcceptedVehicle].lease_end_date
                  > AcceptedRoute.start_datetime
           /\ vehicle_states'[AcceptedVehicle].lease_start_date
                  >= vehicle_states[AcceptedVehicle].lease_end_date
           /\ vehicle_states'[AcceptedVehicle].lease_cycle_number
                  > vehicle_states[AcceptedVehicle].lease_cycle_number
           /\ vehicle_states'[AcceptedVehicle].km_driven_this_lease_year
                  <= vehicle_states'[AcceptedVehicle].current_odometer_km
                         - vehicle_states[AcceptedVehicle].current_odometer_km]_vars

(***************************************************************************)
(* find_shortest_path against the paths of the relation graph.             *)
(***************************************************************************)
Related(a, b) == <<a, b>> \in DOMAIN relations \/ <<b, a>> \in DOMAIN relations

RelationOf(a, b) ==
    IF <<a, b>> \in DOMAIN relations THEN relations[<<a, b>>] ELSE relations[<<b, a>>]

\* the paths of at most max_hops relations from a to b in the undirected graph
HopPaths(a, b) ==
    {p \in UNION {[1..n -> PathLocations] : n \in 2..(max_hops + 1)} :
        /\ p[1] = a
        /\ p[Len(p)] = b
        /\ \A i \in 1..(Len(p) - 1) : Related(p[i], p[i + 1])}

RECURSIVE HopPathTime(_)
HopPathTime(p) ==
    IF Len(p) < 2 THEN 0
    ELSE RelationOf(p[1], p[2]).time + HopPathTime(Tail(p))

\* find_shortest_path was called for two locations without a relation of their own
MultiHopQuery ==
    /\ returned.function = "find_shortest_path"
    /\ returned.from_loc # returned.to_loc
    /\ ~Related(returned.from_loc, returned.to_loc)

\* C32: with no direct relation, find_shortest_path returns a path of at most 3 hops
\* whose total travel time is minimal among the paths of at most 3 hops of the
\* undirected relation graph, and reports that no path exists only when no path of
\* at most 3 hops connects the two locations.
C32_ShortestPath ==
    MultiHopQuery =>
        /\ HopPaths(returned.from_loc, returned.to_loc) # {} => returned.value.exists
        /\ returned.value.exists =>
               /\ returned.value.path \in HopPaths(returned.from_loc, returned.to_loc)
               /\ \A p \in HopPaths(returned.from_loc, returned.to_loc) :
                      returned.value.time_hours <= HopPathTime(p) \div 60

\* what find_shortest_path returns is a path of the graph of at most 3 hops, with
\* the time of that path
C32_ReturnsAPath ==
    (MultiHopQuery /\ returned.value.exists) =>
        /\ returned.value.path \in HopPaths(returned.from_loc, returned.to_loc)
        /\ returned.value.time_hours = HopPathTime(returned.value.path) \div 60

(***************************************************************************)
(* C33: during one per-route step of optimize_assignment, evaluating       *)
(* feasibility, cost and chain score changes no vehicle state; the state   *)
(* of the selected vehicle becomes what update_state makes of the state it *)
(* had before the step, and the state of every other vehicle is left       *)
(* unchanged.                                                              *)
(***************************************************************************)
StepAccepts == Len(assignments') = Len(assignments) + 1

C33_FrameOfStep ==
    [][/\ DOMAIN vehicle_states' = DOMAIN vehicle_states
       /\ \A id \in DOMAIN vehicle_states :
              IF StepAccepts /\ assignments'[Len(assignments')].vehicle_id = id
                THEN vehicle_states'[id] =
                         update_state(vehicle_states[id], current_route, relation_lookup,
                                      config, relation_cache')
                ELSE vehicle_states'[id] = vehicle_states[id]]_vars

\* a finished run: the first route went to one vehicle with a chain ahead of
\* it, the other vehicle was feasible for it too (its chain was scored) and
\* still has the state it started with
C33_Witness ==
    /\ pc = "done"
    /\ chain_enabled(config)
    /\ Len(assignments) >= 1
    /\ assignments[1].route_id = routes_to_assign[1].id
    /\ assignments[1].chain_score > 0
    /\ \E id \in DOMAIN vehicle_states :
           /\ id # assignments[1].vehicle_id
           /\ check_feasibility(initialize_states(vehicles, routes[1].start_datetime)[id],
                                routes_to_assign[1], relation_lookup, config, << >>) = "OK"
           /\ vehicle_states[id] =
                  initialize_states(vehicles, routes[1].start_datetime)[id]

(***************************************************************************)
(* C34: in every reachable state of a run total_lifetime_km equals         *)
(* current_odometer_km for every vehicle; the lifetime cap is compared     *)
(* against the raw odometer.                                               *)
(***************************************************************************)
C34_LifetimeIsOdometer ==
    \A id \in DOMAIN vehicle_states :
        vehicle_states[id].total_lifetime_km = vehicle_states[id].current_odometer_km

\* a finished run in which a vehicle relocated and drove, so that both
\* counters moved away from the odometer the vehicle came with
C34_Witness ==
    /\ pc = "done"
    /\ \E i \in DOMAIN vehicles :
           /\ vehicle_states[vehicles[i].id].relocations # << >>
           /\ vehicle_states[vehicles[i].id].routes_assigned >= 2
           /\ vehicle_states[vehicles[i].id].total_lifetime_km
                  > vehicles[i].current_odometer_km

(***************************************************************************)
(* C35: when optimize_assignment finishes, every route of the assignment   *)
(* window is listed exactly once, in the assignments (with one vehicle of  *)
(* the fleet) or among the unassigned; the two lists together are as long  *)
(* as the window; the routes_assigned of the vehicles add up to the number *)
(* of assignments.                                                         *)
(***************************************************************************)
TimesAssigned(route_id) ==
    Cardinality({i \in DOMAIN assignments : assignments[i].route_id = route_id})

TimesUnassigned(route_id) ==
    Cardinality({i \in DOMAIN unassigned : unassigned[i] = route_id})

C35_EveryRouteOnce ==
    pc = "done" =>
        /\ \A i \in DOMAIN routes_to_assign :
               TimesAssigned(routes_to_assign[i].id)
                   + TimesUnassigned(routes_to_assign[i].id) = 1
        /\ \A i \in DOMAIN assignments :
               assignments[i].vehicle_id \in DOMAIN vehicle_states
        /\ Len(assignments) + Len(unassigned) = Len(routes_to_assign)
        /\ SumOver([id \in DOMAIN vehicle_states |-> vehicle_states[id].routes_assigned],
                   DOMAIN vehicle_states) = Len(assignments)

\* a finished lookahead run over a window shorter than the file, with a
\* route assigned and a route left without a vehicle
C35_Witness ==
    /\ pc = "done"
    /\ config.assignment_strategy = "greedy_with_lookahead"
    /\ Len(routes_to_assign) < Len(routes)
    /\ assignments # << >>
    /\ unassigned # << >>

(***************************************************************************)
(* C36: optimize_placement gives every input vehicle exactly one location; *)
(* when a route of the placement window has a start location that          *)
(* analyze_route_flow counts, every location of the mapping is the start   *)
(* or the end of a route of the window.  As stated (the window merely      *)
(* holds a route) the second part fails: a window of routes without        *)
(* segments sends every vehicle to the fallback location 1.                *)
(***************************************************************************)
WindowLocations ==
    ({placement_window(routes, config)[i].start_location_id :
         i \in DOMAIN placement_window(routes, config)}
     \cup {placement_window(routes, config)[i].end_location_id :
              i \in DOMAIN placement_window(routes, config)}) \ {None}

PlacedEveryVehicle ==
    DOMAIN returned.value = {vehicles[i].id : i \in DOMAIN vehicles}

PlacedInWindow ==
    \A id \in DOMAIN returned.value : returned.value[id] \in WindowLocations

LocationsUsed == {returned.value[id] : id \in DOMAIN returned.value}

CoverageCall == returned.function = "coverage_first_assignment" /\ demand # << >>

\* the half of the claim for fleets at least as large as the demand dictionary
C37_EnoughVehicles ==
    CoverageCall /\ Len(demand) <= Len(vehicles) => dict_keys(demand) \subseteq LocationsUsed

C37_CoverageSeeding ==
    CoverageCall =>
        IF Len(demand) <= Len(vehicles)
          THEN dict_keys(demand) \subseteq LocationsUsed
          ELSE /\ Cardinality(LocationsUsed) = Len(vehicles)
               /\ \A u \in LocationsUsed : \A w \in dict_keys(demand) \ LocationsUsed :
                      dict_get(demand, u) >= dict_get(demand, w)

(***************************************************************************)
(* C38: for every location id l analyze_route_flow reports starts[l] as    *)
(* the number of routes of the window that start at l and ends[l] as the   *)
(* number that end at l, net_demand[l] = starts[l] - ends[l] and           *)
(* total_activity[l] = starts[l] + ends[l] (a location that is not listed  *)
(* counts as 0); the net demands add up to zero when every route of the    *)
(* window has a start and an end location.                                 *)
(***************************************************************************)
FlowWindow == placement_window(routes, config)

RoutesStartingAt(l) ==
    Cardinality({i \in DOMAIN FlowWindow : FlowWindow[i].start_location_id = l})

RoutesEndingAt(l) ==
    Cardinality({i \in DOMAIN FlowWindow : FlowWindow[i].end_location_id = l})

C38_RouteFlow ==
    returned.function = "analyze_route_flow" =>
        /\ \A l \in 0..5 :
               /\ dict_get(returned.value.starts, l) = RoutesStartingAt(l)
               /\ dict_get(returned.value.ends, l) = RoutesEndingAt(l)
               /\ dict_get(returned.value.net_demand, l)
                      = RoutesStartingAt(l) - RoutesEndingAt(l)
               /\ dict_get(returned.value.total_activity, l)
                      = RoutesStartingAt(l) + RoutesEndingAt(l)
        /\ (\A i \in DOMAIN FlowWindow : /\ FlowWindow[i].start_location_id # None
                                         /\ FlowWindow[i].end_location_id # None)
               => total_count(returned.value.net_demand) = 0

\* the same for the windows in which no route touches location 0
C38_RouteFlowAwayFromZero ==
    returned.function = "analyze_route_flow"
    /\ RoutesStartingAt(0) + RoutesEndingAt(0) = 0
        => /\ \A l \in 1..5 :
                  /\ dict_get(returned.value.starts, l) = RoutesStartingAt(l)
                  /\ dict_get(returned.value.ends, l) = RoutesEndingAt(l)
                  /\ dict_get(returned.value.net_demand, l)
                         = RoutesStartingAt(l) - RoutesEndingAt(l)
                  /\ dict_get(returned.value.total_activity, l)
                         = RoutesStartingAt(l) + RoutesEndingAt(l)
           /\ (\A i \in DOMAIN FlowWindow : /\ FlowWindow[i].start_location_id # None
                                            /\ FlowWindow[i].end_location_id # None)
                  => total_count(returned.value.net_demand) = 0

\* the ids start_algorithm_run can return: every call starts at most one run
RunIds == 1..MaxCalls

\* the call in progress holds the id of a run that is recorded as running
RunningRunOfTheCall(id) ==
    /\ call.run_id = id
    /\ id \in DOMAIN database.algorithm_runs
    /\ database.algorithm_runs[id] = "running"

\* the run was started by the handler of /algorithm/placement, /assignment or /run
StartedByEndpoint(id) == call.request # "none" /\ RunningRunOfTheCall(id)

\* the run was started by main of run_optimizer.py in database mode
StartedByRunOptimizer(id) ==
    /\ call.request = "none"
    /\ call.data_dir = "None"
    /\ RunningRunOfTheCall(id)

RunMarked(id) ==
    /\ id \in DOMAIN database.algorithm_runs
    /\ database.algorithm_runs[id] \in {"completed", "failed"}

C39_EndpointRunsAreMarked ==
    \A id \in RunIds : StartedByEndpoint(id) ~> RunMarked(id)

\* a run of an endpoint stays running only if the statement that marks it raised
C39_EndpointRunLeftRunning ==
    [][\A id \in RunIds :
           (StartedByEndpoint(id) /\ Idle' /\ ~RunMarked(id)') => At("unhandled")]_vars


\* every call comes to its end
C39_CallsEnd == ~Idle ~> Idle
====
